---- MODULE Spec2Model ----
(***************************************************************************)
(* Model of the Tier 1 pre-fill engine (src/lib/prefill-types.ts):         *)
(* prefillPericope, the per-clause classifiers behind prefillClause, the   *)
(* cross-clause reference resolver (assignReferenceStatus) and the         *)
(* participant registry builder (buildParticipantRegistry).                *)
(*                                                                         *)
(* Free text (lexemes, glosses, labels, text-type codes) is a sequence of  *)
(* one-character strings, so that trim, toLowerCase, charAt, includes and  *)
(* replace are computed character by character.  Feature codes that the    *)
(* code only compares and concatenates (sp, nu, vt, typ, kind, function)   *)
(* are TLA+ strings.  null / undefined is the value NULL.  The em dash and  *)
(* the arrow of the source's basis literals are written "--" and "->".     *)
(***************************************************************************)
EXTENDS Integers, Sequences, FiniteSets, TLC

VARIABLES
    args,        \* arguments of the running prefillPericope call
    pc,          \* position in prefillPericope: called, prefill, passes, done
    pericope,    \* filterVerseRange's result (local `pericope`)
    allClauses,  \* local `allClauses`: the PrefillClauseResult list
    seen,        \* assignReferenceStatus's local Map key -> first clause_id
    rstate,      \* assignReferenceStatus: idle, running, done
    rpos,        \* participants the resolver has visited so far
    registry,    \* buildParticipantRegistry's local Map, in insertion order
    gstate,      \* buildParticipantRegistry: idle, running, done
    gpos,        \* participants the registry builder has visited so far
    result,      \* the PrefillPericope returned, NULL before the return
    calls,       \* invocations started so far
    log,         \* the calls that have returned: <<arguments, result>> records
    annotations,     \* editor: clause id -> ClauseAnnotation, NULL if none yet
    confirmedFields, \* editor: clause id -> field keys the analyst confirmed
    reviewFlags,     \* editor: flags of the last completed AI review
    reviewStatus,    \* editor: idle, loading, error, done
    reviewError,     \* editor: message of the last failed review, "null" if none
    requests,        \* POST /api/review requests in flight
    responses,       \* responses of the endpoint in flight
    reviews,         \* AI reviews started so far
    activePass,      \* editor: index of the pass tab shown, 0 to 3
    pericopeClauses  \* editor: ids of the clauses of the loaded pericope, in order

engineVars == <<args, pc, pericope, allClauses, seen, rstate, rpos, registry,
                gstate, gpos, result, calls, log>>

editorVars == <<annotations, confirmedFields, reviewFlags, reviewStatus, reviewError,
                requests, responses, reviews, activePass, pericopeClauses>>

vars == <<args, pc, pericope, allClauses, seen, rstate, rpos, registry,
          gstate, gpos, result, calls, log, annotations, confirmedFields,
          reviewFlags, reviewStatus, reviewError, requests, responses, reviews,
          activePass, pericopeClauses>>

NULL == [null |-> TRUE]

(***************************************************************************)
(* Strings as character sequences                                          *)
(***************************************************************************)

RECURSIVE Str(_)
\* The TLA+ string spelled by a character sequence (for string concatenation).
Str(s) == IF s = <<>> THEN "" ELSE Head(s) \o Str(Tail(s))

UpperCase == <<"A", "B", "C", "D", "E", "F", "G", "H", "I", "J", "K", "L", "M",
               "N", "O", "P", "Q", "R", "S", "T", "U", "V", "W", "X", "Y", "Z">>
LowerCase == <<"a", "b", "c", "d", "e", "f", "g", "h", "i", "j", "k", "l", "m",
               "n", "o", "p", "q", "r", "s", "t", "u", "v", "w", "x", "y", "z">>

\* String.prototype.toLowerCase on one character.
lowerChar(c) ==
    IF \E n \in 1..Len(UpperCase) : UpperCase[n] = c
    THEN LowerCase[CHOOSE n \in 1..Len(UpperCase) : UpperCase[n] = c]
    ELSE c

toLowerCase(s) == [n \in 1..Len(s) |-> lowerChar(s[n])]

\* The characters String.prototype.trim and the regex class \s treat as white space.
isWhiteSpace(c) == c \in {" ", "\t", "\n", "\r", "\f"}

RECURSIVE trimStart(_)
trimStart(s) ==
    IF s # <<>> /\ isWhiteSpace(Head(s)) THEN trimStart(Tail(s)) ELSE s

RECURSIVE trimEnd(_)
trimEnd(s) ==
    IF s # <<>> /\ isWhiteSpace(s[Len(s)])
    THEN trimEnd(SubSeq(s, 1, Len(s) - 1))
    ELSE s

\* String.prototype.trim
trim(s) == trimEnd(trimStart(s))

RECURSIVE collapseWhiteSpace(_)
\* s.replace(/\s+/g, " "): every run of white space becomes one space.
collapseWhiteSpace(s) ==
    IF s = <<>> THEN <<>>
    ELSE IF isWhiteSpace(Head(s))
         THEN <<" ">> \o collapseWhiteSpace(trimStart(s))
         ELSE <<Head(s)>> \o collapseWhiteSpace(Tail(s))

\* s.replace(/[\[\]]/g, ""): square brackets removed.
stripBrackets(s) == SelectSeq(s, LAMBDA c : c \notin {"[", "]"})

\* s.includes(c) for a one-character c.
includes(s, c) == \E n \in 1..Len(s) : s[n] = c

\* s.charAt(0): the first character, "" for the empty string.
charAt0(s) == IF s = <<>> THEN "" ELSE s[1]

RECURSIVE digits(_)
\* The decimal digits of a natural number, as `${n}` writes them.
digits(n) ==
    LET d == <<"0", "1", "2", "3", "4", "5", "6", "7", "8", "9">>[(n % 10) + 1]
    IN  IF n < 10 THEN <<d>> ELSE digits(n \div 10) \o <<d>>

RECURSIVE join(_, _)
\* parts.join(sep) for a sequence of character sequences.
join(parts, sep) ==
    IF parts = <<>> THEN <<>>
    ELSE IF Len(parts) = 1 THEN parts[1]
    ELSE parts[1] \o sep \o join(Tail(parts), sep)

\* The index of the first TRUE of a sequence of booleans, 0 if there is none:
\* the position Array.prototype.find stops at.
firstTrue(flags) ==
    IF \E n \in 1..Len(flags) : flags[n]
    THEN CHOOSE n \in 1..Len(flags) : flags[n] /\ \A m \in 1..(n - 1) : ~flags[m]
    ELSE 0

(***************************************************************************)
(* Constants: BHSA -> Tripod mappings                                      *)
(***************************************************************************)

HJH == <<"H", "J", "H", "[">>

\* Verb lexeme -> event category.
VERB_EVENT_CATEGORY ==
    (<<"H", "L", "K", "[">> :> "MOTION")
    @@ (<<"B", "W", "J", ">", "[">> :> "MOTION")
    @@ (<<"B", "W", ">", "[">> :> "MOTION")
    @@ (<<">", "W", "B", "[">> :> "MOTION")
    @@ (<<"C", "W", "B", "[">> :> "MOTION")
    @@ (<<"J", "Y", ">", "[">> :> "MOTION")
    @@ (<<"<", "L", "H", "[">> :> "MOTION")
    @@ (<<"J", "R", "D", "[">> :> "MOTION")
    @@ (<<"N", "W", "S", "[">> :> "MOTION")
    @@ (<<"R", "W", "Y", "[">> :> "MOTION")
    @@ (<<"B", "R", "X", "[">> :> "MOTION")
    @@ (<<"N", "T", "N", "[">> :> "TRANSFER")
    @@ (<<"L", "Q", "X", "[">> :> "TRANSFER")
    @@ (<<"N", "C", ">", "[">> :> "TRANSFER")
    @@ (<<">", "M", "R", "[">> :> "SPEECH")
    @@ (<<"D", "B", "R", "[">> :> "SPEECH")
    @@ (<<"Q", "R", ">", "[">> :> "SPEECH")
    @@ (<<"S", "P", "R", "[">> :> "SPEECH")
    @@ (<<"N", "G", "D", "[">> :> "SPEECH")
    @@ (<<"C", "M", "W", "[">> :> "INTERNAL")
    @@ (<<"C", ">", "L", "[">> :> "SPEECH")
    @@ (<<"R", ">", "H", "[">> :> "INTERNAL")
    @@ (<<"J", "D", "<", "[">> :> "INTERNAL")
    @@ (<<"H", "J", "H", "[">> :> "STATE")
    @@ (<<"J", "C", "B", "[">> :> "STATE")
    @@ (<<"G", "W", "R", "[">> :> "STATE")
    @@ (<<"<", "M", "D", "[">> :> "STATE")
    @@ (<<"C", "K", "B", "[">> :> "STATE")
    @@ (<<"M", "W", "T", "[">> :> "PROCESS")
    @@ (<<"J", "L", "D", "[">> :> "PROCESS")
    @@ (<<"X", "J", "H", "[">> :> "STATE")
    @@ (<<">", "K", "L", "[">> :> "ACTION")
    @@ (<<"C", "T", "H", "[">> :> "ACTION")
    @@ (<<"M", "L", "K", "[">> :> "SOCIAL")
    @@ (<<"C", "P", "V", "[">> :> "SOCIAL")
    @@ (<<"P", "Q", "D", "[">> :> "SOCIAL")
    @@ (<<"B", "R", ">", "[">> :> "ACTION")
    @@ (<<"<", "F", "H", "[">> :> "ACTION")
    @@ (<<"B", "N", "H", "[">> :> "ACTION")
    @@ (<<"L", "X", "M", "[">> :> "ACTION")
    @@ (<<"N", "K", "H", "[">> :> "ACTION")
    @@ (<<"H", "R", "G", "[">> :> "ACTION")

\* Phrase function -> semantic role.
PHRASE_ROLE_MAP ==
    [Subj |-> [role |-> "initiator", confidence |-> "medium"],
     Objc |-> [role |-> "affected", confidence |-> "medium"],
     Loca |-> [role |-> "location", confidence |-> "high"],
     Time |-> [role |-> "time", confidence |-> "high"],
     Cmpl |-> [role |-> "not_specified", confidence |-> "low"],
     Adju |-> [role |-> "manner", confidence |-> "low"],
     PreC |-> [role |-> "not_specified", confidence |-> "low"]]

\* Clause type -> discourse function.
DISCOURSE_FUNCTION_MAP ==
    [Way0 |-> [fn |-> "mainline", confidence |-> "high"],
     WayX |-> [fn |-> "mainline", confidence |-> "high"],
     NmCl |-> [fn |-> "background", confidence |-> "high"],
     InfC |-> [fn |-> "background", confidence |-> "high"],
     Ptcp |-> [fn |-> "background", confidence |-> "medium"],
     xQt0 |-> [fn |-> "background", confidence |-> "medium"],
     XQtl |-> [fn |-> "background", confidence |-> "medium"],
     ZQt0 |-> [fn |-> "background", confidence |-> "medium"],
     Ellp |-> [fn |-> "background", confidence |-> "low"]]

\* Negation particles.
NEGATION_LEXEMES ==
    {<<"L", ">">>, <<">", "L">>, <<"B", "L">>, <<">", "J", "N">>, <<"L", "B", "L">>}

(***************************************************************************)
(* Helpers                                                                 *)
(***************************************************************************)

\* The mutation of pv that loses the rule a value rests on.
pvWithoutBasis(value, confidence, basis) ==
    [value |-> value, source |-> "BHSA_AUTO", confidence |-> confidence,
     bhsa_basis |-> ""]

\* A PrefillValue with source = BHSA_AUTO.
pv(value, confidence, basis) ==
    [value |-> value, source |-> "BHSA_AUTO", confidence |-> confidence,
     bhsa_basis |-> basis]

\* The first content word of a phrase, NULL if it has none.
findHeadNoun(phrase) ==
    LET n == firstTrue([k \in 1..Len(phrase.words) |->
                 phrase.words[k].sp \in {"subs", "nmpr", "adjv", "prps", "prde"}])
    IN  IF n = 0 THEN NULL ELSE phrase.words[n]

\* The mutation of filterVerseRange that compares chapters only.
filterByChapterOnly(verses, startCh, startV, endCh, endV) ==
    SelectSeq(verses, LAMBDA v : ~(v.chapter < startCh \/ v.chapter > endCh))

\* The verses of the requested chapter:verse range, in the order given.
filterVerseRange(verses, startCh, startV, endCh, endV) ==
    SelectSeq(verses, LAMBDA v :
        /\ ~(v.chapter < startCh \/ v.chapter > endCh)
        /\ ~(v.chapter = startCh /\ v.verse < startV)
        /\ ~(v.chapter = endCh /\ v.verse > endV))

(***************************************************************************)
(* Layer 3: clause type routing                                            *)
(***************************************************************************)

\* The mutation of inferClauseType that looks for the be/exist verb in the
\* first verb of the clause only.
inferClauseTypeFromFirstVerb(clause) ==
    IF clause.typ = "NmCl" \/ clause.kind = "NC" \/ clause.kind = "AjCl"
    THEN LET n == firstTrue([k \in 1..Len(clause.phrases) |->
                      clause.phrases[k].function \in {"PreC", "PreS"}])
             mainWord == IF n = 0 THEN NULL ELSE findHeadNoun(clause.phrases[n])
         IN  IF n = 0 THEN pv("classification", "medium", "typ=" \o clause.typ)
             ELSE IF mainWord = NULL
                  THEN pv("classification", "medium", "typ=" \o clause.typ)
             ELSE IF mainWord.sp = "nmpr"
                  THEN pv("identification", "high", "PreC head is nmpr")
             ELSE IF mainWord.sp = "adjv"
                  THEN pv("attribution", "high", "PreC head is adjv")
             ELSE IF mainWord.nametype = "gntl"
                  THEN pv("classification", "high", "PreC head is gntl")
             ELSE pv("classification", "medium", "typ=" \o clause.typ \o " default")
    ELSE LET v == firstTrue([k \in 1..Len(clause.words) |-> clause.words[k].sp = "verb"])
             hasHJH == v # 0 /\ clause.words[v].lex = HJH
             hasSubj == \E k \in 1..Len(clause.phrases) :
                           clause.phrases[k].function = "Subj"
         IN  IF hasHJH
             THEN IF hasSubj
                  THEN pv("existential", "medium", "HJH + Subj")
                  ELSE pv("event", "medium", "HJH without Subj -- possible META")
             ELSE pv("event", "high", "verbal clause")

inferClauseType(clause) ==
    IF clause.typ = "NmCl" \/ clause.kind = "NC" \/ clause.kind = "AjCl"
    THEN LET n == firstTrue([k \in 1..Len(clause.phrases) |->
                      clause.phrases[k].function \in {"PreC", "PreS"}])
             mainWord == IF n = 0 THEN NULL ELSE findHeadNoun(clause.phrases[n])
         IN  IF n = 0 THEN pv("classification", "medium", "typ=" \o clause.typ)
             ELSE IF mainWord = NULL
                  THEN pv("classification", "medium", "typ=" \o clause.typ)
             ELSE IF mainWord.sp = "nmpr"
                  THEN pv("identification", "high", "PreC head is nmpr")
             ELSE IF mainWord.sp = "adjv"
                  THEN pv("attribution", "high", "PreC head is adjv")
             ELSE IF mainWord.nametype = "gntl"
                  THEN pv("classification", "high", "PreC head is gntl")
             ELSE pv("classification", "medium", "typ=" \o clause.typ \o " default")
    ELSE LET hasHJH == \E k \in 1..Len(clause.words) :
                           clause.words[k].sp = "verb" /\ clause.words[k].lex = HJH
             hasSubj == \E k \in 1..Len(clause.phrases) :
                           clause.phrases[k].function = "Subj"
         IN  IF hasHJH
             THEN IF hasSubj
                  THEN pv("existential", "medium", "HJH + Subj")
                  ELSE pv("event", "medium", "HJH without Subj -- possible META")
             ELSE pv("event", "high", "verbal clause")

(***************************************************************************)
(* Layer 1: participant extraction                                         *)
(***************************************************************************)

isParticipantWord(word) == word.sp \in {"subs", "nmpr", "prps", "prde"}

inferParticipantType(word) ==
    IF word.nametype = "pers" THEN pv("person", "high", "nametype=pers")
    ELSE IF word.nametype = "topo" THEN pv("place", "high", "nametype=topo")
    ELSE IF word.nametype = "gntl" THEN pv("group", "high", "nametype=gntl")
    ELSE IF word.nametype = "ppde" THEN pv("group", "medium", "nametype=ppde")
    ELSE IF word.sp = "nmpr" THEN pv("person", "medium", "sp=nmpr, no nametype")
    ELSE IF word.sp = "prps" THEN pv("person", "medium", "sp=prps")
    ELSE pv("not_specified", "low", "sp=" \o word.sp)

inferQuantity(word) ==
    CASE word.nu = "sg" -> pv("one", "high", "nu=sg")
      [] word.nu = "du" -> pv("two", "high", "nu=du")
      [] word.nu = "pl" -> pv("many", "medium", "nu=pl")
      [] OTHER -> pv("not_specified", "low", "nu=" \o word.nu)

inferSuffixQuantity(word) ==
    CASE word.prs_nu = "sg" -> pv("one", "high", "prs_nu=sg")
      [] word.prs_nu = "du" -> pv("two", "high", "prs_nu=du")
      [] word.prs_nu = "pl" -> pv("many", "medium", "prs_nu=pl")
      [] OTHER -> pv("not_specified", "low", "prs_nu=" \o word.prs_nu)

inferRoleFromPhrase(phrase) ==
    IF phrase.function \in DOMAIN PHRASE_ROLE_MAP
    THEN pv(PHRASE_ROLE_MAP[phrase.function].role,
            PHRASE_ROLE_MAP[phrase.function].confidence,
            "phrase.function=" \o phrase.function)
    ELSE pv("not_specified", "low", "no mapping for " \o phrase.function)

describeSuffix(word) ==
    LET person == IF word.prs_ps = "p1" THEN <<"1", "s", "t">>
                  ELSE IF word.prs_ps = "p2" THEN <<"2", "n", "d">>
                  ELSE <<"3", "r", "d">>
        gender == IF word.prs_gn = "m" THEN <<"m", "a", "s", "c">>
                  ELSE IF word.prs_gn = "f" THEN <<"f", "e", "m">>
                  ELSE <<>>
        number == IF word.prs_nu = "sg" THEN <<"s", "g">>
                  ELSE IF word.prs_nu = "pl" THEN <<"p", "l">>
                  ELSE <<>>
    IN  trim(collapseWhiteSpace(
            <<"[", "s", "u", "f", "f", "i", "x", ":", " ">> \o person \o <<" ">>
            \o gender \o <<" ">> \o number \o <<"]">>))

\* The mutation of unsetReferenceStatus that guesses locally.
guessedReferenceStatus == pv("new_mention", "low", "pending pericope pass")

\* The reference_status extractParticipants gives every participant.
unsetReferenceStatus == pv("unset", "low", "pending pericope pass")

\* The participant extractParticipants pushes for a free-standing word.
wordParticipant(word, phrase) ==
    [id |-> "p_" \o ToString(word.word_id),
     label |-> IF word.gloss # <<>> THEN word.gloss ELSE word.lex,
     label_hebrew |-> IF word.lex_utf8 # <<>> THEN word.lex_utf8 ELSE word.text_utf8,
     type |-> inferParticipantType(word),
     quantity |-> inferQuantity(word),
     reference_status |-> unsetReferenceStatus,
     semantic_role |-> inferRoleFromPhrase(phrase),
     word_id |-> word.word_id,
     phrase_function |-> phrase.function]

\* The mutation of suffixParticipant whose Hebrew label names the word that
\* bears the suffix as well.
suffixParticipantOfWord(word, phrase) ==
    [id |-> "ps_" \o ToString(word.word_id),
     label |-> describeSuffix(word),
     label_hebrew |-> word.prs \o <<"_">> \o digits(word.word_id),
     type |-> pv("person", "medium", "pronominal suffix"),
     quantity |-> inferSuffixQuantity(word),
     reference_status |-> unsetReferenceStatus,
     semantic_role |-> pv("not_specified", "low", "suffix -- role unclear"),
     word_id |-> word.word_id,
     phrase_function |-> phrase.function]

\* The participant extractParticipants pushes for a pronominal suffix.
suffixParticipant(word, phrase) ==
    [id |-> "ps_" \o ToString(word.word_id),
     label |-> describeSuffix(word),
     label_hebrew |-> word.prs,
     type |-> pv("person", "medium", "pronominal suffix"),
     quantity |-> inferSuffixQuantity(word),
     reference_status |-> unsetReferenceStatus,
     semantic_role |-> pv("not_specified", "low", "suffix -- role unclear"),
     word_id |-> word.word_id,
     phrase_function |-> phrase.function]

\* The within-clause key of a free-standing word.
wordKey(word) ==
    IF word.lex_utf8 # <<>> THEN word.lex_utf8
    ELSE IF word.lex # <<>> THEN word.lex
    ELSE word.gloss

\* The within-clause key of a suffix: `suffix_${word.word_id}`.
suffixKey(word) == <<"s", "u", "f", "f", "i", "x", "_">> \o digits(word.word_id)

hasSuffix(word) ==
    /\ word.prs # <<>>
    /\ word.prs # <<"a", "b", "s", "e", "n", "t">>
    /\ word.prs # <<"n", "/", "a">>

RECURSIVE scanHeadWords(_, _, _)
\* The first loop over a phrase's words, from word k on; acc is the pair of
\* locals `result` and `seen`.
scanHeadWords(phrase, k, acc) ==
    IF k > Len(phrase.words) THEN acc
    ELSE LET word == phrase.words[k]
         IN  IF ~isParticipantWord(word) \/ wordKey(word) \in acc.seen
             THEN scanHeadWords(phrase, k + 1, acc)
             ELSE scanHeadWords(phrase, k + 1,
                      [result |-> Append(acc.result, wordParticipant(word, phrase)),
                       seen |-> acc.seen \cup {wordKey(word)}])

RECURSIVE scanSuffixesByLexeme(_, _, _)
\* The mutation of scanSuffixes that keys a suffix by its word's lexeme, and
\* so merges it with a free-standing mention of that lexeme.
scanSuffixesByLexeme(phrase, k, acc) ==
    IF k > Len(phrase.words) THEN acc
    ELSE LET word == phrase.words[k]
         IN  IF ~hasSuffix(word) \/ wordKey(word) \in acc.seen
             THEN scanSuffixesByLexeme(phrase, k + 1, acc)
             ELSE scanSuffixesByLexeme(phrase, k + 1,
                      [result |-> Append(acc.result, suffixParticipant(word, phrase)),
                       seen |-> acc.seen \cup {wordKey(word)}])

RECURSIVE scanSuffixes(_, _, _)
\* The second loop over a phrase's words, from word k on.
scanSuffixes(phrase, k, acc) ==
    IF k > Len(phrase.words) THEN acc
    ELSE LET word == phrase.words[k]
         IN  IF ~hasSuffix(word) \/ suffixKey(word) \in acc.seen
             THEN scanSuffixes(phrase, k + 1, acc)
             ELSE scanSuffixes(phrase, k + 1,
                      [result |-> Append(acc.result, suffixParticipant(word, phrase)),
                       seen |-> acc.seen \cup {suffixKey(word)}])

participantFunctions == {"Subj", "Objc", "Cmpl", "PreC", "PreS", "ExsS", "IntS"}

RECURSIVE scanPhrases(_, _, _)
\* The loop over the clause's phrases, from phrase k on.
scanPhrases(clause, k, acc) ==
    IF k > Len(clause.phrases) THEN acc
    ELSE LET phrase == clause.phrases[k]
         IN  IF phrase.function \notin participantFunctions
             THEN scanPhrases(clause, k + 1, acc)
             ELSE scanPhrases(clause, k + 1,
                      scanSuffixes(phrase, 1, scanHeadWords(phrase, 1, acc)))

extractParticipants(clause) ==
    scanPhrases(clause, 1, [result |-> <<>>, seen |-> {}]).result

(***************************************************************************)
(* Layer 3: event core, event category, semantic roles                     *)
(***************************************************************************)

\* The first word of a word list with sp = verb, NULL if there is none.
findVerb(words) ==
    LET n == firstTrue([k \in 1..Len(words) |-> words[k].sp = "verb"])
    IN  IF n = 0 THEN NULL ELSE words[n]

\* The mutation of extractEventCore that builds a core although no verb
\* was found.
extractEventCoreUnguarded(clause) ==
    LET n == firstTrue([k \in 1..Len(clause.phrases) |->
                 clause.phrases[k].function \in {"Pred", "PreO"}])
        inPred == IF n = 0 THEN NULL ELSE findVerb(clause.phrases[n].words)
        mainVerb == IF inPred # NULL THEN inPred ELSE findVerb(clause.words)
    IN  IF mainVerb = NULL
        THEN [lexeme |-> <<>>, lexeme_utf8 |-> <<>>, gloss |-> <<>>,
              verbal_stem |-> "NA", verbal_tense |-> "NA"]
        ELSE [lexeme |-> mainVerb.lex,
              lexeme_utf8 |-> mainVerb.lex_utf8,
              gloss |-> mainVerb.gloss,
              verbal_stem |-> IF mainVerb.vs # "" THEN mainVerb.vs ELSE "NA",
              verbal_tense |-> IF mainVerb.vt # "" THEN mainVerb.vt ELSE "NA"]

extractEventCore(clause) ==
    LET n == firstTrue([k \in 1..Len(clause.phrases) |->
                 clause.phrases[k].function \in {"Pred", "PreO"}])
        inPred == IF n = 0 THEN NULL ELSE findVerb(clause.phrases[n].words)
        mainVerb == IF inPred # NULL THEN inPred ELSE findVerb(clause.words)
    IN  IF mainVerb = NULL THEN NULL
        ELSE [lexeme |-> mainVerb.lex,
              lexeme_utf8 |-> mainVerb.lex_utf8,
              gloss |-> mainVerb.gloss,
              verbal_stem |-> IF mainVerb.vs # "" THEN mainVerb.vs ELSE "NA",
              verbal_tense |-> IF mainVerb.vt # "" THEN mainVerb.vt ELSE "NA"]

\* The mutation of inferEventCategory that takes every wayyiqtol clause of
\* the be/exist verb for a frame-opener, with or without a temporal phrase.
inferEventCategoryWithoutTime(clause, eventCore) ==
    IF eventCore = NULL THEN NULL
    ELSE IF eventCore.lexeme \in DOMAIN VERB_EVENT_CATEGORY
    THEN IF eventCore.lexeme = HJH
         THEN IF clause.typ = "Way0"
              THEN pv("META", "medium", "HJH + Way0 + Time phrase -> META frame-opener")
              ELSE pv("STATE", "medium", "HJH default -> STATE")
         ELSE pv(VERB_EVENT_CATEGORY[eventCore.lexeme], "high",
                 "VERB_EVENT_CATEGORY[" \o Str(eventCore.lexeme) \o "]")
    ELSE NULL

\* The mutation of inferEventCategory that guesses a category for a verb the
\* table does not list.
inferEventCategoryGuessing(clause, eventCore) ==
    IF eventCore = NULL THEN NULL
    ELSE IF eventCore.lexeme \in DOMAIN VERB_EVENT_CATEGORY
    THEN pv(VERB_EVENT_CATEGORY[eventCore.lexeme], "high",
            "VERB_EVENT_CATEGORY[" \o Str(eventCore.lexeme) \o "]")
    ELSE pv("ACTION", "low", "default")

inferEventCategory(clause, eventCore) ==
    IF eventCore = NULL THEN NULL
    ELSE IF eventCore.lexeme \in DOMAIN VERB_EVENT_CATEGORY
    THEN IF eventCore.lexeme = HJH
         THEN IF /\ clause.typ = "Way0"
                 /\ \E k \in 1..Len(clause.phrases) : clause.phrases[k].function = "Time"
              THEN pv("META", "medium", "HJH + Way0 + Time phrase -> META frame-opener")
              ELSE pv("STATE", "medium", "HJH default -> STATE")
         ELSE pv(VERB_EVENT_CATEGORY[eventCore.lexeme], "high",
                 "VERB_EVENT_CATEGORY[" \o Str(eventCore.lexeme) \o "]")
    ELSE NULL

\* The entry extractSemanticRoles pushes for a phrase with a role mapping.
semanticRole(phrase) ==
    LET glosses == SelectSeq([k \in 1..Len(phrase.words) |-> phrase.words[k].gloss],
                             LAMBDA g : g # <<>>)
        gloss == join(glosses, <<" ">>)
        hebrew == join([k \in 1..Len(phrase.words) |-> phrase.words[k].text_utf8],
                       <<" ">>)
    IN  [role |-> PHRASE_ROLE_MAP[phrase.function].role,
         filler |-> IF gloss # <<>> THEN gloss
                    ELSE <<"[", "n", "o", " ", "g", "l", "o", "s", "s", "]">>,
         filler_hebrew |-> hebrew,
         source |-> "BHSA_AUTO",
         confidence |-> PHRASE_ROLE_MAP[phrase.function].confidence,
         phrase_function |-> phrase.function]

extractSemanticRoles(clause) ==
    LET kept == SelectSeq(clause.phrases, LAMBDA phrase :
                    /\ phrase.function \notin {"Pred", "PreO", "Conj", "NA"}
                    /\ phrase.function \in DOMAIN PHRASE_ROLE_MAP)
    IN  [k \in 1..Len(kept) |-> semanticRole(kept[k])]

(***************************************************************************)
(* Layer 4: event modifiers                                                *)
(***************************************************************************)

\* The mutation of inferAspect that omits the aspect of the tenses it cannot
\* decide instead of abstaining explicitly.
inferAspectOmitting(verb) ==
    CASE verb.vt = "perf" -> pv("completed", "medium", "vt=perf")
      [] verb.vt = "wayq" -> pv("completed", "high", "vt=wayq")
      [] verb.vt = "ptca" -> pv("ongoing", "medium", "vt=ptca")
      [] OTHER -> NULL

inferAspect(verb) ==
    CASE verb.vt = "perf" -> pv("completed", "medium", "vt=perf")
      [] verb.vt = "wayq" -> pv("completed", "high", "vt=wayq")
      [] verb.vt = "impf" -> pv("not_specified", "low", "vt=impf -- ambiguous")
      [] verb.vt = "ptca" -> pv("ongoing", "medium", "vt=ptca")
      [] verb.vt = "impv" -> pv("not_specified", "low", "vt=impv -- commands lack aspect")
      [] verb.vt = "infc" -> pv("not_specified", "low", "vt=infc")
      [] verb.vt = "infa" -> pv("not_specified", "low", "vt=infa")
      [] OTHER -> pv("not_specified", "low", "vt=" \o verb.vt)

inferTimeFrame(clause, verb) ==
    IF charAt0(clause.txt) = "N"
    THEN pv("retrospective", "high", "txt starts with N (narrative)")
    ELSE IF verb # NULL /\ verb.vt = "impv"
    THEN pv("prospective", "high", "vt=impv")
    ELSE IF includes(clause.txt, "Q")
    THEN pv("not_specified", "low", "txt includes Q -- ambiguous")
    ELSE NULL

inferVolitionality(verb) ==
    IF verb.vt = "impv" THEN pv("volitional", "high", "vt=impv") ELSE NULL

\* The mutation of inferModifiers that leaves polarity out when the clause
\* has no verb.
inferModifiersNeedingVerb(clause) ==
    LET mainVerb == findVerb(clause.words)
        hasNegation == \E k \in 1..Len(clause.words) :
                           stripBrackets(clause.words[k].lex) \in NEGATION_LEXEMES
    IN  [reality |-> pv("actual", "medium", "narrative default"),
         polarity |-> IF mainVerb = NULL THEN NULL
                      ELSE IF hasNegation
                      THEN pv("negative", "high", "negation particle found")
                      ELSE pv("positive", "high", "no negation particle"),
         aspect |-> IF mainVerb # NULL THEN inferAspect(mainVerb) ELSE NULL,
         time_frame |-> inferTimeFrame(clause, mainVerb),
         volitionality |-> IF mainVerb # NULL THEN inferVolitionality(mainVerb) ELSE NULL]

inferModifiers(clause) ==
    LET mainVerb == findVerb(clause.words)
        hasNegation == \E k \in 1..Len(clause.words) :
                           stripBrackets(clause.words[k].lex) \in NEGATION_LEXEMES
    IN  [reality |-> pv("actual", "medium", "narrative default"),
         polarity |-> IF hasNegation
                      THEN pv("negative", "high", "negation particle found")
                      ELSE pv("positive", "high", "no negation particle"),
         aspect |-> IF mainVerb # NULL THEN inferAspect(mainVerb) ELSE NULL,
         time_frame |-> inferTimeFrame(clause, mainVerb),
         volitionality |-> IF mainVerb # NULL THEN inferVolitionality(mainVerb) ELSE NULL]

(***************************************************************************)
(* Layers 5 and 6: discourse function, register                            *)
(***************************************************************************)

inferDiscourseFunction(clause) ==
    IF clause.typ \in DOMAIN DISCOURSE_FUNCTION_MAP
    THEN pv(DISCOURSE_FUNCTION_MAP[clause.typ].fn,
            DISCOURSE_FUNCTION_MAP[clause.typ].confidence,
            "DISCOURSE_MAP[" \o clause.typ \o "]")
    ELSE NULL

inferRegister(clause) ==
    IF includes(clause.txt, "Q") THEN pv("dialogue", "high", "txt includes Q")
    ELSE IF includes(clause.txt, "D") THEN pv("formal", "medium", "txt includes D")
    ELSE pv("narrative", "high", "txt=" \o Str(clause.txt) \o " (narrative default)")

(***************************************************************************)
(* Core engine: one clause                                                 *)
(***************************************************************************)

prefillClause(clause) ==
    LET eventCore == extractEventCore(clause)
        modifiers == inferModifiers(clause)
    IN  [clause_id |-> clause.clause_id,
         clause_type |-> inferClauseType(clause),
         event_category |-> inferEventCategory(clause, eventCore),
         event_core |-> eventCore,
         semantic_roles |-> extractSemanticRoles(clause),
         participants |-> extractParticipants(clause),
         reality |-> modifiers.reality,
         polarity |-> modifiers.polarity,
         aspect |-> modifiers.aspect,
         time_frame |-> modifiers.time_frame,
         volitionality |-> modifiers.volitionality,
         discourse_function |-> inferDiscourseFunction(clause),
         register |-> inferRegister(clause)]

(***************************************************************************)
(* Pericope-wide passes                                                    *)
(***************************************************************************)

normalizeParticipantKey(p) ==
    LET raw == IF p.label_hebrew # <<>> THEN p.label_hebrew ELSE p.label
    IN  toLowerCase(trim(raw))

RECURSIVE positionsFrom(_, _)
\* The <<clause index, participant index>> pairs the two nested loops
\* `for clause of clauses / for p of clause.participants` visit, in order,
\* from clause ci on.
positionsFrom(clauses, ci) ==
    IF ci > Len(clauses) THEN <<>>
    ELSE [pi \in 1..Len(clauses[ci].participants) |-> <<ci, pi>>]
         \o positionsFrom(clauses, ci + 1)

positions(clauses) == positionsFrom(clauses, 1)

participantAt(clauses, pos) == clauses[pos[1]].participants[pos[2]]

\* The mutation of newSeen that keeps the map of the previous call (a
\* module-level cache).
staleSeen == seen

\* `new Map()` at the head of assignReferenceStatus.
newSeen == <<>>

\* The mutation of statusFor that never consults the map.
statusAlwaysNew(seenMap, key) == pv("new_mention", "high", "first occurrence")

\* The reference_status the resolver assigns for a key, given the map so far.
statusFor(seenMap, key) ==
    IF key \in DOMAIN seenMap
    THEN pv("given", "high", "seen in clause " \o ToString(seenMap[key]))
    ELSE pv("new_mention", "high", "first occurrence")

\* The mutation of seenAfter that records the latest occurrence.
seenOverwritten(seenMap, key, clause_id) ==
    [k \in DOMAIN seenMap \cup {key} |-> IF k = key THEN clause_id ELSE seenMap[k]]

\* The map after a participant with this key was visited in clause clause_id.
seenAfter(seenMap, key, clause_id) ==
    IF key \in DOMAIN seenMap THEN seenMap ELSE seenMap @@ (key :> clause_id)

\* The mutation of withReferenceStatus that assigns to the wrong field.
statusInWrongField(p, status) == [p EXCEPT !.type = status]

\* `p.reference_status = status`
withReferenceStatus(p, status) == [p EXCEPT !.reference_status = status]

\* One iteration of the resolver's inner loop, on the participant at pos.
assignOne(st, pos) ==
    LET clause == st.clauses[pos[1]]
        p == clause.participants[pos[2]]
        key == normalizeParticipantKey(p)
    IN  [clauses |-> [st.clauses EXCEPT ![pos[1]].participants[pos[2]] =
                          withReferenceStatus(p, statusFor(st.seen, key))],
         seen |-> seenAfter(st.seen, key, clause.clause_id)]

RECURSIVE assignFrom(_, _, _)
assignFrom(st, ps, n) ==
    IF n > Len(ps) THEN st ELSE assignFrom(assignOne(st, ps[n]), ps, n + 1)

\* The whole resolver: the clause results as it leaves them.
assignReferenceStatus(clauses) ==
    assignFrom([clauses |-> clauses, seen |-> newSeen], positions(clauses), 1).clauses

\* `registry.has(key)` for the insertion-ordered Map.
registryHas(reg, key) == \E n \in 1..Len(reg) : reg[n].key = key

\* The mutation of registerOne without the `has` test.
registerAlways(reg, p) ==
    Append(reg, [key |-> normalizeParticipantKey(p), value |-> p])

\* The mutation of registerOne in which the last occurrence wins.
registerLastWins(reg, p) ==
    IF registryHas(reg, normalizeParticipantKey(p))
    THEN [n \in 1..Len(reg) |->
             IF reg[n].key = normalizeParticipantKey(p)
             THEN [key |-> reg[n].key, value |-> p] ELSE reg[n]]
    ELSE Append(reg, [key |-> normalizeParticipantKey(p), value |-> p])

\* The mutation of registerOne that relies on the resolver to tell first
\* occurrences from later ones.
registerUnlessGiven(reg, p) ==
    IF p.reference_status.value = "given" THEN reg
    ELSE Append(reg, [key |-> normalizeParticipantKey(p), value |-> p])

\* One iteration of the registry builder's inner loop, on participant p.
registerOne(reg, p) ==
    IF registryHas(reg, normalizeParticipantKey(p)) THEN reg
    ELSE Append(reg, [key |-> normalizeParticipantKey(p), value |-> p])

RECURSIVE registerFrom(_, _, _, _)
registerFrom(reg, clauses, ps, n) ==
    IF n > Len(ps) THEN reg
    ELSE registerFrom(registerOne(reg, participantAt(clauses, ps[n])), clauses, ps, n + 1)

\* The mutation of registryValues for a registry that holds the clause
\* participants themselves instead of copies: each value is read from the
\* clause results as they are now.
registryValuesAliased(reg) ==
    [n \in 1..Len(reg) |->
        LET ps == positions(allClauses)
            first == firstTrue([k \in 1..Len(ps) |->
                         normalizeParticipantKey(participantAt(allClauses, ps[k]))
                             = reg[n].key])
        IN  participantAt(allClauses, ps[first])]

\* `Array.from(registry.values())`
registryValues(reg) == [n \in 1..Len(reg) |-> reg[n].value]

\* The whole registry builder.
buildParticipantRegistry(clauses) ==
    registryValues(registerFrom(<<>>, clauses, positions(clauses), 1))

RECURSIVE clausesOf(_)
\* The clauses of a verse list in the order the nested loops
\* `for verse of pericope / for clause of verse.clauses` visit them.
clausesOf(verseList) ==
    IF verseList = <<>> THEN <<>>
    ELSE Head(verseList).clauses \o clausesOf(Tail(verseList))

(***************************************************************************)
(* Input: BHSA word, phrase, clause and verse records                      *)
(*                                                                         *)
(* Hebrew forms are written in Latin letters.                              *)
(***************************************************************************)

\* A gentilic adjective ("Moabite"): named-entity subtype gntl on an adjective.
wMoabite ==
    [word_id |-> 25, text_utf8 |-> <<"m", "o", "a", "v", "i">>,
     lex |-> <<"M", "W", ">", "B", "J", "/">>,
     lex_utf8 |-> <<"m", "o", "a", "v", "i">>,
     gloss |-> <<"M", "o", "a", "b", "i", "t", "e">>, sp |-> "adjv", nu |-> "sg",
     vs |-> "NA", vt |-> "NA", nametype |-> "gntl",
     prs |-> <<"a", "b", "s", "e", "n", "t">>, prs_gn |-> "NA", prs_nu |-> "NA",
     prs_ps |-> "NA"]

\* A gentilic listed as a proper noun ("Judah" for its people).
wJudah ==
    [word_id |-> 26, text_utf8 |-> <<"y", "e", "h", "u", "d", "a">>,
     lex |-> <<"J", "H", "W", "D", "H", "/">>,
     lex_utf8 |-> <<"y", "e", "h", "u", "d", "a">>,
     gloss |-> <<"J", "u", "d", "a", "h">>, sp |-> "nmpr", nu |-> "sg",
     vs |-> "NA", vt |-> "NA", nametype |-> "gntl",
     prs |-> <<"a", "b", "s", "e", "n", "t">>, prs_gn |-> "NA", prs_nu |-> "NA",
     prs_ps |-> "NA"]

\* The negation of existence, a noun: its lexeme carries the noun marker.
wThereIsNot ==
    [word_id |-> 27, text_utf8 |-> <<"e", "n">>, lex |-> <<">", "J", "N", "/">>,
     lex_utf8 |-> <<"e", "n">>, gloss |-> <<"n", "o", "n", "e">>, sp |-> "subs",
     nu |-> "sg", vs |-> "NA", vt |-> "NA", nametype |-> "NA",
     prs |-> <<"a", "b", "s", "e", "n", "t">>, prs_gn |-> "NA", prs_nu |-> "NA",
     prs_ps |-> "NA"]

\* "her man": the lexeme of wMan on another word, with a 3rd person suffix
\* written in lower case after a blank.
wHerMan ==
    [word_id |-> 28, text_utf8 |-> <<"i", "s", "h", "a", "h">>,
     lex |-> <<">", "J", "C", "/">>, lex_utf8 |-> <<"i", "s", "h">>,
     gloss |-> <<"m", "a", "n">>, sp |-> "subs", nu |-> "sg", vs |-> "NA",
     vt |-> "NA", nametype |-> "NA", prs |-> <<" ", "w">>, prs_gn |-> "f",
     prs_nu |-> "sg", prs_ps |-> "p3"]

\* "they", a free-standing pronoun spelled like the plural suffix.
wThey ==
    [word_id |-> 29, text_utf8 |-> <<"h", "m">>, lex |-> <<"H", "M">>,
     lex_utf8 |-> <<"h", "m">>, gloss |-> <<"t", "h", "e", "y">>, sp |-> "prps",
     nu |-> "pl", vs |-> "NA", vt |-> "NA", nametype |-> "NA",
     prs |-> <<"a", "b", "s", "e", "n", "t">>, prs_gn |-> "NA", prs_nu |-> "NA",
     prs_ps |-> "NA"]

\* "man", a common noun.
wMan ==
    [word_id |-> 1, text_utf8 |-> <<"i", "s", "h">>, lex |-> <<">", "J", "C", "/">>,
     lex_utf8 |-> <<"i", "s", "h">>, gloss |-> <<"m", "a", "n">>, sp |-> "subs",
     nu |-> "sg", vs |-> "NA", vt |-> "NA", nametype |-> "NA",
     prs |-> <<"a", "b", "s", "e", "n", "t">>, prs_gn |-> "NA", prs_nu |-> "NA",
     prs_ps |-> "NA"]

\* The same lexeme with a leading blank and a capital: another within-clause key.
wManPadded ==
    [word_id |-> 2, text_utf8 |-> <<" ", "I", "s", "h">>, lex |-> <<">", "J", "C", "/">>,
     lex_utf8 |-> <<" ", "I", "s", "h">>, gloss |-> <<"t", "h", "e", " ", "m", "a", "n">>,
     sp |-> "subs", nu |-> "sg", vs |-> "NA", vt |-> "NA", nametype |-> "NA",
     prs |-> <<"a", "b", "s", "e", "n", "t">>, prs_gn |-> "NA", prs_nu |-> "NA",
     prs_ps |-> "NA"]

\* A word with no Hebrew form: its label is the gloss "the man".
wTheMan ==
    [word_id |-> 3, text_utf8 |-> <<>>, lex |-> <<>>, lex_utf8 |-> <<>>,
     gloss |-> <<"t", "h", "e", " ", "m", "a", "n">>, sp |-> "subs", nu |-> "sg",
     vs |-> "NA", vt |-> "NA", nametype |-> "NA", prs |-> <<"a", "b", "s", "e", "n", "t">>,
     prs_gn |-> "NA", prs_nu |-> "NA", prs_ps |-> "NA"]

\* A word with no Hebrew form: its label is the gloss "man".
wManGloss ==
    [word_id |-> 4, text_utf8 |-> <<>>, lex |-> <<>>, lex_utf8 |-> <<>>,
     gloss |-> <<"m", "a", "n">>, sp |-> "subs", nu |-> "du", vs |-> "NA", vt |-> "NA",
     nametype |-> "NA", prs |-> <<"a", "b", "s", "e", "n", "t">>, prs_gn |-> "NA",
     prs_nu |-> "NA", prs_ps |-> "NA"]

\* A proper noun naming a person.
wNaomi ==
    [word_id |-> 5, text_utf8 |-> <<"n", "o", "m", "i">>,
     lex |-> <<"N", "<", "M", "J", "/">>, lex_utf8 |-> <<"n", "o", "m", "i">>,
     gloss |-> <<"N", "a", "o", "m", "i">>, sp |-> "nmpr", nu |-> "sg", vs |-> "NA",
     vt |-> "NA", nametype |-> "pers", prs |-> <<"a", "b", "s", "e", "n", "t">>,
     prs_gn |-> "NA", prs_nu |-> "NA", prs_ps |-> "NA"]

\* A proper noun naming a place.
wMoab ==
    [word_id |-> 6, text_utf8 |-> <<"m", "o", "a", "b">>,
     lex |-> <<"M", "W", ">", "B", "/">>, lex_utf8 |-> <<"m", "o", "a", "b">>,
     gloss |-> <<"M", "o", "a", "b">>, sp |-> "nmpr", nu |-> "sg", vs |-> "NA",
     vt |-> "NA", nametype |-> "topo", prs |-> <<"a", "b", "s", "e", "n", "t">>,
     prs_gn |-> "NA", prs_nu |-> "NA", prs_ps |-> "NA"]

\* A gentilic.
wEphrathite ==
    [word_id |-> 7, text_utf8 |-> <<"e", "f", "r", "a", "t", "i">>,
     lex |-> <<">", "P", "R", "T", "J", "/">>,
     lex_utf8 |-> <<"e", "f", "r", "a", "t", "i">>,
     gloss |-> <<"E", "p", "h", "r", "a", "t", "h", "i", "t", "e">>, sp |-> "subs",
     nu |-> "pl", vs |-> "NA", vt |-> "NA", nametype |-> "gntl",
     prs |-> <<"a", "b", "s", "e", "n", "t">>, prs_gn |-> "NA", prs_nu |-> "NA",
     prs_ps |-> "NA"]

\* "his wife": a noun with a 3rd person masculine singular suffix.
wWife ==
    [word_id |-> 8, text_utf8 |-> <<"i", "s", "h", "a">>, lex |-> <<">", "C", "H", "/">>,
     lex_utf8 |-> <<"i", "s", "h", "a">>, gloss |-> <<"w", "i", "f", "e">>, sp |-> "subs",
     nu |-> "sg", vs |-> "NA", vt |-> "NA", nametype |-> "NA", prs |-> <<"W">>,
     prs_gn |-> "m", prs_nu |-> "sg", prs_ps |-> "p3"]

\* "his sons": a plural noun with the same suffix.
wSons ==
    [word_id |-> 9, text_utf8 |-> <<"b", "e", "n">>, lex |-> <<"B", "N", "/">>,
     lex_utf8 |-> <<"b", "e", "n">>, gloss |-> <<"s", "o", "n">>, sp |-> "subs",
     nu |-> "pl", vs |-> "NA", vt |-> "NA", nametype |-> "NA", prs |-> <<"W">>,
     prs_gn |-> "m", prs_nu |-> "sg", prs_ps |-> "p3"]

\* A preposition with a 3rd person plural suffix, in capitals.
wWithThem ==
    [word_id |-> 10, text_utf8 |-> <<"i", "m">>, lex |-> <<"<", "M">>,
     lex_utf8 |-> <<"i", "m">>, gloss |-> <<"w", "i", "t", "h">>, sp |-> "prep",
     nu |-> "NA", vs |-> "NA", vt |-> "NA", nametype |-> "NA", prs |-> <<"H", "M">>,
     prs_gn |-> "f", prs_nu |-> "pl", prs_ps |-> "p2"]

\* "famine".
wFamine ==
    [word_id |-> 11, text_utf8 |-> <<"r", "a", "a", "v">>, lex |-> <<"R", "<", "B", "/">>,
     lex_utf8 |-> <<"r", "a", "a", "v">>, gloss |-> <<"f", "a", "m", "i", "n", "e">>,
     sp |-> "subs", nu |-> "sg", vs |-> "NA", vt |-> "NA", nametype |-> "NA",
     prs |-> <<"a", "b", "s", "e", "n", "t">>, prs_gn |-> "NA", prs_nu |-> "NA",
     prs_ps |-> "NA"]

\* "days".
wDays ==
    [word_id |-> 12, text_utf8 |-> <<"y", "o", "m">>, lex |-> <<"J", "W", "M", "/">>,
     lex_utf8 |-> <<"y", "o", "m">>, gloss |-> <<"d", "a", "y">>, sp |-> "subs",
     nu |-> "pl", vs |-> "NA", vt |-> "NA", nametype |-> "NA",
     prs |-> <<"a", "b", "s", "e", "n", "t">>, prs_gn |-> "NA", prs_nu |-> "NA",
     prs_ps |-> "NA"]

\* An independent pronoun.
wShe ==
    [word_id |-> 13, text_utf8 |-> <<"h", "i">>, lex |-> <<"H", "J", ">">>,
     lex_utf8 |-> <<"h", "i">>, gloss |-> <<"s", "h", "e">>, sp |-> "prps", nu |-> "sg",
     vs |-> "NA", vt |-> "NA", nametype |-> "NA", prs |-> <<"a", "b", "s", "e", "n", "t">>,
     prs_gn |-> "NA", prs_nu |-> "NA", prs_ps |-> "NA"]

\* A demonstrative of a people, with no number.
wThese ==
    [word_id |-> 14, text_utf8 |-> <<"e", "l", "l", "e">>, lex |-> <<">", "L", "H">>,
     lex_utf8 |-> <<"e", "l", "l", "e">>, gloss |-> <<"t", "h", "e", "s", "e">>,
     sp |-> "prde", nu |-> "unknown", vs |-> "NA", vt |-> "NA", nametype |-> "ppde",
     prs |-> <<"a", "b", "s", "e", "n", "t">>, prs_gn |-> "NA", prs_nu |-> "NA",
     prs_ps |-> "NA"]

\* A proper noun without a named-entity subtype, with a dual suffix.
wBethlehem ==
    [word_id |-> 15, text_utf8 |-> <<"b", "e", "t", "l", "e", "h", "e", "m">>,
     lex |-> <<"B", "J", "T", "_", "L", "X", "M", "/">>,
     lex_utf8 |-> <<"b", "e", "t", "l", "e", "h", "e", "m">>,
     gloss |-> <<"B", "e", "t", "h", "l", "e", "h", "e", "m">>, sp |-> "nmpr", nu |-> "sg",
     vs |-> "NA", vt |-> "NA", nametype |-> "NA", prs |-> <<"K">>, prs_gn |-> "NA",
     prs_nu |-> "du", prs_ps |-> "p1"]

\* An adjective.
wGood ==
    [word_id |-> 16, text_utf8 |-> <<"t", "o", "v">>, lex |-> <<"V", "W", "B", "/">>,
     lex_utf8 |-> <<"t", "o", "v">>, gloss |-> <<"g", "o", "o", "d">>, sp |-> "adjv",
     nu |-> "sg", vs |-> "NA", vt |-> "NA", nametype |-> "NA",
     prs |-> <<"a", "b", "s", "e", "n", "t">>, prs_gn |-> "NA", prs_nu |-> "NA",
     prs_ps |-> "NA"]

\* The negation particle.
wNot ==
    [word_id |-> 17, text_utf8 |-> <<"l", "o">>, lex |-> <<"L", ">">>,
     lex_utf8 |-> <<"l", "o">>, gloss |-> <<"n", "o", "t">>, sp |-> "nega", nu |-> "NA",
     vs |-> "NA", vt |-> "NA", nametype |-> "NA", prs |-> <<"a", "b", "s", "e", "n", "t">>,
     prs_gn |-> "NA", prs_nu |-> "NA", prs_ps |-> "NA"]

\* "he went": wayyiqtol of a MOTION verb.
wWent ==
    [word_id |-> 18, text_utf8 |-> <<"h", "a", "l", "a", "k", "h">>,
     lex |-> <<"H", "L", "K", "[">>, lex_utf8 |-> <<"h", "a", "l", "a", "k", "h">>,
     gloss |-> <<"w", "a", "l", "k">>, sp |-> "verb", nu |-> "sg", vs |-> "qal",
     vt |-> "wayq", nametype |-> "NA", prs |-> <<"a", "b", "s", "e", "n", "t">>,
     prs_gn |-> "NA", prs_nu |-> "NA", prs_ps |-> "NA"]

\* "go!": imperative of the same verb.
wGo ==
    [word_id |-> 19, text_utf8 |-> <<"h", "a", "l", "a", "k", "h">>,
     lex |-> <<"H", "L", "K", "[">>, lex_utf8 |-> <<"h", "a", "l", "a", "k", "h">>,
     gloss |-> <<"w", "a", "l", "k">>, sp |-> "verb", nu |-> "sg", vs |-> "qal",
     vt |-> "impv", nametype |-> "NA", prs |-> <<"a", "b", "s", "e", "n", "t">>,
     prs_gn |-> "NA", prs_nu |-> "NA", prs_ps |-> "NA"]

\* "and it was": wayyiqtol of the be/exist verb.
wWas ==
    [word_id |-> 20, text_utf8 |-> <<"h", "a", "y", "a">>, lex |-> <<"H", "J", "H", "[">>,
     lex_utf8 |-> <<"h", "a", "y", "a">>, gloss |-> <<"b", "e">>, sp |-> "verb",
     nu |-> "sg", vs |-> "qal", vt |-> "wayq", nametype |-> "NA",
     prs |-> <<"a", "b", "s", "e", "n", "t">>, prs_gn |-> "NA", prs_nu |-> "NA",
     prs_ps |-> "NA"]

\* "took": perfect of a TRANSFER verb.
wTook ==
    [word_id |-> 21, text_utf8 |-> <<"l", "a", "q", "a", "c", "h">>,
     lex |-> <<"L", "Q", "X", "[">>, lex_utf8 |-> <<"l", "a", "q", "a", "c", "h">>,
     gloss |-> <<"t", "a", "k", "e">>, sp |-> "verb", nu |-> "sg", vs |-> "qal",
     vt |-> "perf", nametype |-> "NA", prs |-> <<"a", "b", "s", "e", "n", "t">>,
     prs_gn |-> "NA", prs_nu |-> "NA", prs_ps |-> "NA"]

\* "cling": imperfect of a verb outside the category table, without a stem.
wCling ==
    [word_id |-> 22, text_utf8 |-> <<"d", "a", "v", "a", "q">>,
     lex |-> <<"D", "B", "Q", "[">>, lex_utf8 |-> <<"d", "a", "v", "a", "q">>,
     gloss |-> <<"c", "l", "i", "n", "g">>, sp |-> "verb", nu |-> "sg", vs |-> "",
     vt |-> "impf", nametype |-> "NA", prs |-> <<"a", "b", "s", "e", "n", "t">>,
     prs_gn |-> "NA", prs_nu |-> "NA", prs_ps |-> "NA"]

\* "judging": active participle of a SOCIAL verb, without a gloss.
wJudging ==
    [word_id |-> 23, text_utf8 |-> <<"s", "h", "a", "f", "a", "t">>,
     lex |-> <<"C", "P", "V", "[">>, lex_utf8 |-> <<"s", "h", "a", "f", "a", "t">>,
     gloss |-> <<>>, sp |-> "verb", nu |-> "sg", vs |-> "qal", vt |-> "ptca",
     nametype |-> "NA", prs |-> <<"a", "b", "s", "e", "n", "t">>, prs_gn |-> "NA",
     prs_nu |-> "NA", prs_ps |-> "NA"]

\* "to dwell": infinitive construct of a STATE verb.
wToDwell ==
    [word_id |-> 24, text_utf8 |-> <<"y", "a", "s", "h", "a", "v">>,
     lex |-> <<"J", "C", "B", "[">>, lex_utf8 |-> <<"y", "a", "s", "h", "a", "v">>,
     gloss |-> <<"s", "i", "t">>, sp |-> "verb", nu |-> "sg", vs |-> "qal", vt |-> "infc",
     nametype |-> "NA", prs |-> <<"a", "b", "s", "e", "n", "t">>, prs_gn |-> "NA",
     prs_nu |-> "NA", prs_ps |-> "NA"]

\* A BHSAEnrichedPhrase (the fields the engine reads).
Phrase(function, words) == [function |-> function, words |-> words]

RECURSIVE wordsOf(_)
\* The flat word list of a phrase list: the clause's `words`.
wordsOf(phrases) ==
    IF phrases = <<>> THEN <<>> ELSE Head(phrases).words \o wordsOf(Tail(phrases))

\* A BHSAEnrichedClause (the fields the engine reads).
Clause(clause_id, typ, txt, kind, phrases) ==
    [clause_id |-> clause_id, typ |-> typ, txt |-> txt, kind |-> kind,
     phrases |-> phrases, words |-> wordsOf(phrases)]

\* A BHSAEnrichedVerse.
Verse(chapter, verse, clauses) ==
    [chapter |-> chapter, verse |-> verse, clauses |-> clauses]

\* Text types (clause.txt).
txtN == <<"N">>
txtNQ == <<"N", "Q">>
txtQ == <<"Q">>
txtD == <<"D">>
txtUnknown == <<"?">>

cWent ==
    Clause(11, "Way0", txtN, "VC",
           <<Phrase("Pred", <<wWent>>), Phrase("Subj", <<wMan>>),
             Phrase("Cmpl", <<wMoab>>)>>)
cName ==
    Clause(12, "NmCl", txtN, "NC",
           <<Phrase("Subj", <<wManPadded>>), Phrase("PreC", <<wNaomi>>)>>)
cDays ==
    Clause(13, "Way0", txtN, "VC",
           <<Phrase("Pred", <<wWas>>), Phrase("Time", <<wDays>>)>>)
cFamine ==
    Clause(14, "WayX", txtN, "VC",
           <<Phrase("Pred", <<wWas>>), Phrase("Subj", <<wFamine>>),
             Phrase("Loca", <<wMoab>>)>>)
cTook ==
    Clause(15, "xQt0", txtNQ, "VC",
           <<Phrase("Nega", <<wNot>>), Phrase("Pred", <<wTook>>),
             Phrase("Objc", <<wWife>>)>>)
cGo ==
    Clause(16, "ZIm0", txtQ, "VC",
           <<Phrase("Pred", <<wGo>>), Phrase("Cmpl", <<wSons, wWithThem>>)>>)
cGood ==
    Clause(17, "NmCl", txtD, "NC",
           <<Phrase("Subj", <<wTheMan>>), Phrase("PreC", <<wGood>>)>>)
cEphrathites ==
    Clause(18, "Ptcp", txtN, "AjCl",
           <<Phrase("PreC", <<wEphrathite>>), Phrase("Subj", <<wThese>>)>>)
cNoPredicate ==
    Clause(19, "NmCl", txtUnknown, "NC",
           <<Phrase("Subj", <<wManGloss>>), Phrase("Adju", <<wDays>>)>>)
cCling ==
    Clause(20, "XYqt", txtQ, "VC",
           <<Phrase("Subj", <<wShe>>), Phrase("Pred", <<wCling>>),
             Phrase("Objc", <<wBethlehem>>)>>)
cJudging ==
    Clause(10, "Ptcp", txtN, "VC",
           <<Phrase("PreC", <<wJudging, wMan, wManPadded>>)>>)
cDwell ==
    Clause(9, "InfC", txtUnknown, "VC",
           <<Phrase("Pred", <<wToDwell>>), Phrase("PreS", <<wMan>>)>>)
\* A clause with zero words.
cEmpty == Clause(21, "Ellp", <<>>, "Ellp", <<>>)
\* A verbless clause whose predicate complement has no content word.
cNoHead ==
    Clause(22, "NmCl", txtD, "NC", <<Phrase("PreC", <<wNot>>)>>)
\* A verbless clause whose predicate complement is a common noun.
cDefault ==
    Clause(23, "Unkn", txtN, "NC",
           <<Phrase("PreC", <<wFamine>>), Phrase("IntS", <<wShe>>)>>)

\* A clause that names "man" twice, the second time with a suffix, and holds
\* two more suffixed words.
cHerMan ==
    Clause(31, "Way0", txtN, "VC",
           <<Phrase("Pred", <<wTook>>), Phrase("Subj", <<wMan>>),
             Phrase("Objc", <<wHerMan, wWife>>), Phrase("Cmpl", <<wWithThem>>)>>)
\* A clause with the free-standing pronoun.
cThey ==
    Clause(32, "NmCl", txtN, "NC",
           <<Phrase("Subj", <<wThey>>), Phrase("PreC", <<wGood>>)>>)

\* The verses spans are built from.  Two verses may carry the same
\* chapter:verse, and clause ids need not grow along a span.
VersePool ==
    {Verse(1, 1, <<cWent, cName>>),
     Verse(1, 2, <<cDays, cFamine>>),
     Verse(1, 2, <<cTook, cGo>>),
     Verse(2, 1, <<cGood, cEphrathites>>),
     Verse(2, 1, <<cNoPredicate, cCling>>),
     Verse(2, 2, <<cJudging, cDwell>>),
     Verse(1, 1, <<cEmpty, cNoHead, cDefault>>)}

\* Longest span of verses handed to prefillPericope.
MaxVerses == 2

\* Most invocations of prefillPericope in one behaviour.
MaxCalls == 3

Spans == UNION {[1..n -> VersePool] : n \in 0..MaxVerses}

\* <<startChapter, startVerse, endChapter, endVerse>>
Ranges == {<<1, 1, 2, 2>>, <<1, 2, 2, 1>>, <<1, 1, 1, 2>>, <<2, 1, 1, 2>>}

Args(verses, range) ==
    [verses |-> verses, book |-> "Ruth",
     startChapter |-> range[1], startVerse |-> range[2],
     endChapter |-> range[3], endVerse |-> range[4]]

\* The argument tuples of a first invocation.
Inputs == {Args(vs, r) : vs \in Spans, r \in Ranges}

\* The argument tuples of repeated invocations: one verse, the whole book range.
CallInputs == {Args(<<v>>, <<1, 1, 2, 2>>) : v \in VersePool}

\* Structural type and clause kind of the clauses classified one by one.
GridTypes ==
    {<<"Way0", "VC">>, <<"WayX", "VC">>, <<"XYqt", "VC">>, <<"ZIm0", "VC">>,
     <<"InfC", "VC">>, <<"NmCl", "NC">>, <<"Ptcp", "NC">>, <<"AjCl", "AjCl">>,
     <<"Ellp", "Ellp">>, <<"Unkn", "NC">>}

\* Their text types.
GridTexts == {txtN, txtNQ, txtQ, txtD, <<>>}

\* Their phrase lists.
GridPhrases ==
    {<<>>,
     <<Phrase("PreC", <<>>), Phrase("Subj", <<>>)>>,
     <<Phrase("Pred", <<wWent>>), Phrase("Subj", <<wMan>>)>>,
     <<Phrase("Nega", <<wNot>>), Phrase("Pred", <<wGo>>)>>,
     <<Phrase("Pred", <<wCling>>), Phrase("Objc", <<wWife>>)>>,
     <<Phrase("Pred", <<wWas>>), Phrase("Time", <<wDays>>)>>,
     <<Phrase("Pred", <<wWas>>), Phrase("Subj", <<wFamine>>)>>,
     <<Phrase("Pred", <<wWas>>), Phrase("Subj", <<wFamine>>), Phrase("Time", <<wDays>>)>>,
     <<Phrase("Time", <<wDays>>), Phrase("Cmpl", <<wToDwell, wWas>>)>>,
     <<Phrase("Subj", <<wMan>>), Phrase("PreC", <<wNaomi>>)>>,
     <<Phrase("PreC", <<wJudging, wNaomi>>)>>,
     <<Phrase("Subj", <<wThese>>), Phrase("PreC", <<wEphrathite>>)>>,
     <<Phrase("Subj", <<wShe>>), Phrase("PreC", <<wMoabite>>)>>,
     <<Phrase("Subj", <<wThese>>), Phrase("PreC", <<wJudah>>)>>,
     <<Phrase("Subj", <<wMan>>), Phrase("PreS", <<wGood>>)>>,
     <<Phrase("Subj", <<wFamine>>), Phrase("PreC", <<wThereIsNot>>)>>,
     <<Phrase("Subj", <<wMan>>), Phrase("Nega", <<wNot>>), Phrase("PreC", <<wFamine>>)>>,
     <<Phrase("Pred", <<wTook>>), Phrase("Objc", <<wNaomi>>)>>,
     <<Phrase("Subj", <<wJudging>>), Phrase("Pred", <<wWent>>)>>}

ClauseGrid ==
    {Clause(30, t[1], x, t[2], ps) : t \in GridTypes, x \in GridTexts, ps \in GridPhrases}

\* The argument tuples of a call on a single clause.
ClauseInputs == {Args(<<Verse(1, 1, <<c>>)>>, <<1, 1, 2, 2>>) : c \in ClauseGrid}

(***************************************************************************)
(* Editor: AI review                                                       *)
(***************************************************************************)

\* The clauses of the default pericope, in order.
DEFAULT_PERICOPE == <<1, 2>>

\* The clause lists of the ranges the analyst can load: the default one, a
\* part of it, a range without verses.
Pericopes == {<<1, 2>>, <<1>>, <<2>>, <<>>}

\* Source tags of a field (other_fields['__source:' + key]).
SOURCE_AUTO == "BHSA_AUTO"
SOURCE_HUMAN_CONFIRMED == "human_confirmed"

\* The field of an annotation followed here.
FieldKey == "clause_type"

\* Values of the field.
ClauseTypes == {"event", "identification", "not_specified"}

\* An annotation: the field and its source tag ("none": no tag).
Annotation(clause_type, source) == [clause_type |-> clause_type, source |-> source]

\* createDefaultAnnotation: verbless clauses start at not_specified.
createDefaultAnnotation(is_verbless) ==
    Annotation(IF is_verbless THEN "not_specified" ELSE "event", "none")

\* applyPrefillToAnnotation, for the clause type the engine pre-filled.
applyPrefillToAnnotation(base, prefillClauseType) ==
    IF /\ prefillClauseType # "not_specified"
       /\ \/ base.clause_type = "not_specified"
          \/ (base.clause_type = "event" /\ prefillClauseType # "event")
    THEN Annotation(prefillClauseType, SOURCE_AUTO)
    ELSE base

\* The editor after construction: no annotation, nothing confirmed, no review.
EditorInit ==
    /\ annotations = [c \in {1, 2} |-> NULL]
    /\ confirmedFields = [c \in {1, 2} |-> {}]
    /\ reviewFlags = <<>>
    /\ reviewStatus = "idle"
    /\ reviewError = "null"
    /\ requests = <<>>
    /\ responses = <<>>
    /\ reviews = 0
    /\ activePass = 0
    /\ pericopeClauses = DEFAULT_PERICOPE

\* raw.replace(/^the\s+/i, "") on a lower-cased string.
stripLeadingThe(s) ==
    IF Len(s) > 3 /\ SubSeq(s, 1, 3) = <<"t", "h", "e">> /\ isWhiteSpace(s[4])
    THEN trimStart(SubSeq(s, 4, Len(s)))
    ELSE s

\* The editor's participant-linking key.
normalizeParticipantKeyValue(raw) ==
    IF raw = <<>> THEN <<>>
    ELSE collapseWhiteSpace(stripLeadingThe(toLowerCase(trim(raw))))

\* The key the editor computes for an engine participant:
\* normalizeParticipantKeyValue(p.label_hebrew || p.label || "").
editorKey(p) ==
    normalizeParticipantKeyValue(
        IF p.label_hebrew # <<>> THEN p.label_hebrew ELSE p.label)

\* bookParticipantRegistry: the book-wide engine registry without pronouns
\* and suffixes (by a field sp, which engine participants do not carry),
\* each entry with its editor key.
bookParticipantRegistry(bookPrefill) ==
    LET filtered == SelectSeq(bookPrefill.participant_registry,
                        LAMBDA p : ~("sp" \in DOMAIN p /\ p.sp \in {"prps", "prde", "suffix"}))
    IN  [index \in 1..Len(filtered) |->
            [id |-> "P" \o ToString(index),
             label |-> filtered[index].label,
             label_hebrew |-> filtered[index].label_hebrew,
             type |-> filtered[index].type.value,
             quantity |-> filtered[index].quantity.value,
             key |-> editorKey(filtered[index]),
             source_id |-> filtered[index].id]]

\* bookRegistryByKey: the first entry of every non-empty key, as the set of
\* the map's values.
bookRegistryByKey(entries) ==
    {entries[n] : n \in {k \in 1..Len(entries) :
        /\ entries[k].key # <<>>
        /\ \A j \in 1..(k - 1) : entries[j].key # entries[k].key}}

(***************************************************************************)
(* Core engine: prefillPericope as a state machine                         *)
(***************************************************************************)

InitWith(inputs) ==
    /\ args \in inputs
    /\ pc = "called"
    /\ pericope = <<>>
    /\ allClauses = <<>>
    /\ seen = <<>>
    /\ rstate = "idle"
    /\ rpos = 0
    /\ registry = <<>>
    /\ gstate = "idle"
    /\ gpos = 0
    /\ result = NULL
    /\ calls = 1
    /\ log = <<>>
    /\ EditorInit

Init == InitWith(Inputs)

\* 1. Filter to the requested range; `allClauses` starts empty.
FilterVerseRange ==
    /\ pc = "called"
    /\ pericope' = filterVerseRange(args.verses, args.startChapter, args.startVerse,
                                    args.endChapter, args.endVerse)
    /\ allClauses' = <<>>
    /\ pc' = IF clausesOf(pericope') = <<>> THEN "passes" ELSE "prefill"
    /\ UNCHANGED editorVars
    /\ UNCHANGED <<args, seen, rstate, rpos, registry, gstate, gpos, result, calls, log>>

\* 2. One iteration of the loop that pre-fills each clause independently.
PrefillNextClause ==
    /\ pc = "prefill"
    /\ LET pending == clausesOf(pericope)
       IN  /\ allClauses' = Append(allClauses, prefillClause(pending[Len(allClauses) + 1]))
           /\ pc' = IF Len(allClauses') = Len(pending) THEN "passes" ELSE "prefill"
    /\ UNCHANGED editorVars
    /\ UNCHANGED <<args, pericope, seen, rstate, rpos, registry, gstate, gpos,
                   result, calls, log>>

\* 3. assignReferenceStatus is entered: its map is created.
AssignStart ==
    /\ pc = "passes"
    /\ rstate = "idle"
    /\ seen' = newSeen
    /\ rpos' = 0
    /\ rstate' = IF positions(allClauses) = <<>> THEN "done" ELSE "running"
    /\ UNCHANGED editorVars
    /\ UNCHANGED <<args, pc, pericope, allClauses, registry, gstate, gpos,
                   result, calls, log>>

\* One iteration of assignReferenceStatus's inner loop.
AssignStep ==
    /\ pc = "passes"
    /\ rstate = "running"
    /\ LET ps == positions(allClauses)
           st == assignOne([clauses |-> allClauses, seen |-> seen], ps[rpos + 1])
       IN  /\ allClauses' = st.clauses
           /\ seen' = st.seen
           /\ rpos' = rpos + 1
           /\ rstate' = IF rpos' = Len(ps) THEN "done" ELSE "running"
    /\ UNCHANGED editorVars
    /\ UNCHANGED <<args, pc, pericope, registry, gstate, gpos, result, calls, log>>

\* 4. buildParticipantRegistry is entered: its map is created.
RegistryStart ==
    /\ pc = "passes"
    /\ gstate = "idle"
    /\ registry' = <<>>
    /\ gpos' = 0
    /\ gstate' = IF positions(allClauses) = <<>> THEN "done" ELSE "running"
    /\ UNCHANGED editorVars
    /\ UNCHANGED <<args, pc, pericope, allClauses, seen, rstate, rpos,
                   result, calls, log>>

\* One iteration of buildParticipantRegistry's inner loop.
RegistryStep ==
    /\ pc = "passes"
    /\ gstate = "running"
    /\ LET ps == positions(allClauses)
       IN  /\ registry' = registerOne(registry, participantAt(allClauses, ps[gpos + 1]))
           /\ gpos' = gpos + 1
           /\ gstate' = IF gpos' = Len(ps) THEN "done" ELSE "running"
    /\ UNCHANGED editorVars
    /\ UNCHANGED <<args, pc, pericope, allClauses, seen, rstate, rpos,
                   result, calls, log>>

\* The return statement of prefillPericope.
Return ==
    /\ pc = "passes"
    /\ rstate = "done"
    /\ gstate = "done"
    /\ result' = [book |-> args.book,
                  start_chapter |-> args.startChapter,
                  start_verse |-> args.startVerse,
                  end_chapter |-> args.endChapter,
                  end_verse |-> args.endVerse,
                  clauses |-> allClauses,
                  participant_registry |-> registryValues(registry)]
    /\ pc' = "done"
    /\ UNCHANGED editorVars
    /\ UNCHANGED <<args, pericope, allClauses, seen, rstate, rpos, registry,
                   gstate, gpos, calls, log>>

\* The caller invokes prefillPericope again (the editor does so whenever the
\* pericope range changes).  The locals of the call that returned are gone;
\* what the variables still hold of them is overwritten where the new call
\* declares its own.
Invoke ==
    /\ pc = "done"
    /\ calls < MaxCalls
    /\ log' = Append(log, [args |-> args, result |-> result])
    /\ args' \in CallInputs
    /\ pc' = "called"
    /\ rstate' = "idle"
    /\ gstate' = "idle"
    /\ rpos' = 0
    /\ gpos' = 0
    /\ result' = NULL
    /\ calls' = calls + 1
    /\ UNCHANGED editorVars
    /\ UNCHANGED <<pericope, allClauses, seen, registry>>

\* prefillPericope as written: the registry builder is called after the
\* resolver has returned.
Next ==
    \/ FilterVerseRange
    \/ PrefillNextClause
    \/ AssignStart
    \/ AssignStep
    \/ (rstate = "done" /\ RegistryStart)
    \/ RegistryStep
    \/ Return

Spec == Init /\ [][Next]_vars

\* The two whole-span passes scheduled freely over the same clause results.
NextPasses ==
    \/ FilterVerseRange
    \/ PrefillNextClause
    \/ AssignStart
    \/ AssignStep
    \/ RegistryStart
    \/ RegistryStep
    \/ Return

\* The verses whose clauses carry participants with recurring Identity Keys.
PassesPool ==
    {Verse(1, 1, <<cWent, cName>>),
     Verse(1, 2, <<cTook, cGo>>),
     Verse(2, 1, <<cGood, cEphrathites>>),
     Verse(2, 2, <<cJudging, cDwell>>)}

PassesInputs ==
    {Args(vs, <<1, 1, 2, 2>>) : vs \in UNION {[1..n -> PassesPool] : n \in 0..MaxVerses}}

InitPasses == InitWith(PassesInputs)

SpecPasses == InitPasses /\ [][NextPasses]_vars

\* A sequence of invocations.
NextCalls == Next \/ Invoke

InitCalls == InitWith(CallInputs)

SpecCalls == InitCalls /\ [][NextCalls]_vars

\* A call on one clause of the grid.
InitClauses == InitWith(ClauseInputs)

SpecClauses == InitClauses /\ [][Next]_vars

\* The verses whose clauses carry pronominal suffixes.
MentionPool ==
    {Verse(1, 1, <<cHerMan>>),
     Verse(1, 2, <<cTook, cGo>>),
     Verse(2, 1, <<cThey>>),
     Verse(2, 2, <<cWent, cName>>)}

MentionInputs ==
    {Args(vs, <<1, 1, 2, 2>>) : vs \in UNION {[1..n -> MentionPool] : n \in 0..MaxVerses}}

InitMentions == InitWith(MentionInputs)

SpecMentions == InitMentions /\ [][Next]_vars

(***************************************************************************)
(* Editor: annotating and running the AI review                            *)
(***************************************************************************)

\* Most AI reviews started in one behaviour.
MaxReviews == 2

projectId == "p1"

\* The flag lists the reviewing model may answer with: clause, severity and
\* the value it recommends.
ModelFlags ==
    {<<>>,
     <<[clause_id |-> 1, severity |-> "error", recommendation |-> "identification"]>>,
     <<[clause_id |-> 2, severity |-> "warning", recommendation |-> "event"],
       [clause_id |-> 1, severity |-> "suggestion", recommendation |-> "not_specified"]>>}

\* The endpoint's metadata on each flag (created_at, a clock reading, is left out).
enrichedFlags(flags, project_id) ==
    [index \in 1..Len(flags) |->
        [clause_id |-> flags[index].clause_id,
         severity |-> flags[index].severity,
         recommendation |-> flags[index].recommendation,
         id |-> "flag_" \o project_id \o "_" \o ToString(index - 1),
         project_id |-> project_id,
         status |-> "open"]]

errorResponse(message) == [ok |-> FALSE, body |-> [error |-> message]]

\* The responses POST /api/review can give to a request.
reviewResponses(body) ==
    IF body.project_id = "" \/ body.annotations = <<>>
    THEN {errorResponse("Missing project_id or annotations")}
    ELSE {errorResponse("ANTHROPIC_API_KEY not configured"),
          errorResponse("AI review failed"),
          errorResponse("Failed to parse AI review response"),
          errorResponse("Internal server error")}
         \cup {[ok |-> TRUE, body |-> [flags |-> enrichedFlags(flags, body.project_id)]] :
                   flags \in ModelFlags}

\* A sequence without its n-th element.
without(seq, n) == SubSeq(seq, 1, n - 1) \o SubSeq(seq, n + 1, Len(seq))

pericopeReadyForReview ==
    /\ pericopeClauses # <<>>
    /\ \A i \in 1..Len(pericopeClauses) : confirmedFields[pericopeClauses[i]] # {}

\* Whether the clause is one of the pericope's.
inPericope(clauses, c) == \E i \in 1..Len(clauses) : clauses[i] = c

\* The mutation of populated that applies the pre-fill to the annotations
\* that exist as well.
populatedReapplying(prev, clauses, is_verbless, prefill) ==
    [c \in DOMAIN prev |->
        IF ~inPericope(clauses, c) THEN prev[c]
        ELSE LET base == IF prev[c] # NULL THEN prev[c]
                         ELSE createDefaultAnnotation(is_verbless[c])
                 read == IF prev[c] # NULL THEN "identification" ELSE prefill[c]
             IN  IF read = "none" THEN base ELSE applyPrefillToAnnotation(base, read)]

\* The body of the annotation effect: every clause of the list without an
\* annotation gets a default one with the engine's pre-fill applied ("none":
\* no pre-fill); an annotation that exists is kept.
populated(prev, clauses, is_verbless, prefill) ==
    [c \in DOMAIN prev |->
        IF prev[c] # NULL \/ ~inPericope(clauses, c) THEN prev[c]
        ELSE IF prefill[c] = "none" THEN createDefaultAnnotation(is_verbless[c])
        ELSE applyPrefillToAnnotation(createDefaultAnnotation(is_verbless[c]), prefill[c])]

\* What the annotation effect can read of the clauses: whether each is
\* verbless and the engine's pre-fill for it. Only the clauses it creates an
\* annotation for are read; the others are fixed at one value.
effectReads(prev, clauses) ==
    {reads \in [DOMAIN prev -> BOOLEAN \X {"none", "event", "identification"}] :
        \A c \in DOMAIN prev :
            (prev[c] # NULL \/ ~inPericope(clauses, c)) => reads[c] = <<FALSE, "none">>}

\* The annotation effect after the page has mounted.
PopulateAnnotations ==
    /\ \E c \in DOMAIN annotations : inPericope(pericopeClauses, c) /\ annotations[c] = NULL
    /\ \E reads \in effectReads(annotations, pericopeClauses) :
           annotations' = populated(annotations, pericopeClauses,
                                    [c \in DOMAIN annotations |-> reads[c][1]],
                                    [c \in DOMAIN annotations |-> reads[c][2]])
    /\ UNCHANGED <<confirmedFields, reviewFlags, reviewStatus, reviewError, requests,
                   responses, reviews>>
    /\ UNCHANGED engineVars
    /\ UNCHANGED <<activePass, pericopeClauses>>

\* The analyst picks a clause type (updateAnnotation; updated_at is left out).
EditClauseType ==
    /\ \E c \in DOMAIN annotations, value \in ClauseTypes :
           LET current == IF annotations[c] # NULL THEN annotations[c]
                          ELSE createDefaultAnnotation(FALSE)
           IN  annotations' = [annotations EXCEPT ![c] =
                                  [current EXCEPT !.clause_type = value]]
    /\ UNCHANGED <<confirmedFields, reviewFlags, reviewStatus, reviewError, requests,
                   responses, reviews>>
    /\ UNCHANGED engineVars
    /\ UNCHANGED <<activePass, pericopeClauses>>

\* The mutation of confirmField that works as a toggle: a field already
\* confirmed is unmarked.
confirmFieldToggling ==
    /\ \E c \in DOMAIN annotations :
           /\ confirmedFields' =
                  [confirmedFields EXCEPT ![c] =
                      IF FieldKey \in @ THEN @ \ {FieldKey} ELSE @ \cup {FieldKey}]
           /\ annotations' =
                  IF annotations[c] # NULL /\ annotations[c].source = SOURCE_AUTO
                  THEN [annotations EXCEPT ![c].source = SOURCE_HUMAN_CONFIRMED]
                  ELSE annotations
    /\ UNCHANGED <<reviewFlags, reviewStatus, reviewError, requests, responses, reviews>>
    /\ UNCHANGED engineVars
    /\ UNCHANGED <<activePass, pericopeClauses>>

\* The analyst confirms the field of a clause.
confirmField ==
    /\ \E c \in DOMAIN annotations :
           /\ confirmedFields' = [confirmedFields EXCEPT ![c] = @ \cup {FieldKey}]
           /\ annotations' =
                  IF annotations[c] # NULL /\ annotations[c].source = SOURCE_AUTO
                  THEN [annotations EXCEPT ![c].source = SOURCE_HUMAN_CONFIRMED]
                  ELSE annotations
    /\ UNCHANGED <<reviewFlags, reviewStatus, reviewError, requests, responses, reviews>>
    /\ UNCHANGED engineVars
    /\ UNCHANGED <<activePass, pericopeClauses>>

\* runAIReview up to its fetch: the request carries the annotations that exist.
runAIReview ==
    /\ pericopeReadyForReview
    /\ reviews < MaxReviews
    /\ reviewStatus' = "loading"
    /\ reviewError' = "null"
    /\ requests' = Append(requests,
           [project_id |-> projectId,
            annotations |-> SelectSeq([i \in 1..Len(pericopeClauses) |->
                                          annotations[pericopeClauses[i]]],
                                      LAMBDA a : a # NULL)])
    /\ reviews' = reviews + 1
    /\ UNCHANGED <<annotations, confirmedFields, reviewFlags, responses>>
    /\ UNCHANGED engineVars
    /\ UNCHANGED <<activePass, pericopeClauses>>

\* The endpoint answers a request.
POST ==
    /\ \E n \in 1..Len(requests) :
           /\ \E response \in reviewResponses(requests[n]) :
                  responses' = Append(responses, response)
           /\ requests' = without(requests, n)
    /\ UNCHANGED <<annotations, confirmedFields, reviewFlags, reviewStatus, reviewError,
                   reviews>>
    /\ UNCHANGED engineVars
    /\ UNCHANGED <<activePass, pericopeClauses>>

\* The fetch itself fails: runAIReview's catch.
fetchFails ==
    /\ \E n \in 1..Len(requests) : requests' = without(requests, n)
    /\ reviewStatus' = "error"
    /\ reviewError' = "Failed to fetch"
    /\ UNCHANGED <<annotations, confirmedFields, reviewFlags, responses, reviews>>
    /\ UNCHANGED engineVars
    /\ UNCHANGED <<activePass, pericopeClauses>>

\* The mutation of reviewSucceeds that applies each flag's recommendation to
\* the flagged clause.
reviewSucceedsApplyingFixes ==
    /\ \E n \in 1..Len(responses) :
           /\ responses[n].ok
           /\ reviewFlags' = responses[n].body.flags
           /\ annotations' =
                  [c \in DOMAIN annotations |->
                      IF /\ annotations[c] # NULL
                         /\ \E k \in 1..Len(reviewFlags') : reviewFlags'[k].clause_id = c
                      THEN LET k == CHOOSE k \in 1..Len(reviewFlags') :
                                        reviewFlags'[k].clause_id = c
                           IN  Annotation(reviewFlags'[k].recommendation, "AI_REVIEW")
                      ELSE annotations[c]]
           /\ responses' = without(responses, n)
    /\ reviewStatus' = "done"
    /\ UNCHANGED <<confirmedFields, reviewError, requests, reviews>>
    /\ UNCHANGED engineVars
    /\ UNCHANGED <<activePass, pericopeClauses>>

\* runAIReview after an ok response: the flags replace the old ones.
reviewSucceeds ==
    /\ \E n \in 1..Len(responses) :
           /\ responses[n].ok
           /\ reviewFlags' = responses[n].body.flags
           /\ responses' = without(responses, n)
    /\ reviewStatus' = "done"
    /\ UNCHANGED <<annotations, confirmedFields, reviewError, requests, reviews>>
    /\ UNCHANGED engineVars
    /\ UNCHANGED <<activePass, pericopeClauses>>

\* runAIReview after an error response: the throw and the catch.
reviewFails ==
    /\ \E n \in 1..Len(responses) :
           /\ ~responses[n].ok
           /\ reviewError' = responses[n].body.error
           /\ responses' = without(responses, n)
    /\ reviewStatus' = "error"
    /\ UNCHANGED <<annotations, confirmedFields, reviewFlags, requests, reviews>>
    /\ UNCHANGED engineVars
    /\ UNCHANGED <<activePass, pericopeClauses>>

NextReview ==
    \/ PopulateAnnotations
    \/ EditClauseType
    \/ confirmField
    \/ runAIReview
    \/ POST
    \/ fetchFails
    \/ reviewSucceeds
    \/ reviewFails

\* The mutation of leavePass4 without the guard effect.
stayInPass4(pass, ready) == pass

\* The effect that guards Pass 4: shown while the pericope is not ready, it
\* gives way to Pass 3.
leavePass4(pass, ready) == IF pass = 3 /\ ~ready THEN 2 ELSE pass

\* The analyst clicks a pass tab; the tab of Pass 4 does nothing unless the
\* pericope is ready.
SelectPass ==
    /\ \E i \in 0..3 :
           activePass' = IF i = 3 /\ ~pericopeReadyForReview THEN activePass ELSE i
    /\ UNCHANGED <<annotations, confirmedFields, reviewFlags, reviewStatus, reviewError,
                   requests, responses, reviews, pericopeClauses>>
    /\ UNCHANGED engineVars

\* The analyst loads another range; the effects that depend on it follow:
\* the annotation effect and the guard of Pass 4.
handlePericopeApply ==
    /\ \E parsed \in Pericopes :
           /\ pericopeClauses' = parsed
           /\ \E reads \in effectReads(annotations, parsed) :
                  annotations' = populated(annotations, parsed,
                                           [c \in DOMAIN annotations |-> reads[c][1]],
                                           [c \in DOMAIN annotations |-> reads[c][2]])
    /\ UNCHANGED <<confirmedFields, reviewFlags, reviewStatus, reviewError,
                   requests, responses, reviews>>
    /\ activePass' = leavePass4(activePass, pericopeReadyForReview')
    /\ UNCHANGED engineVars

\* Most requests waiting for an answer while the analyst goes on editing.
MaxPending == 1

\* The button of the Pass 4 panel, shown while Pass 4 is active and the
\* pericope is ready, starts a review.
AIReviewPanel == activePass = 3 /\ Len(requests) < MaxPending /\ runAIReview

\* The editor with its pass tabs and its range input, up to the start of a
\* review; what follows a request is NextReview's.
NextEditor ==
    \/ PopulateAnnotations
    \/ EditClauseType
    \/ confirmField
    \/ SelectPass
    \/ handlePericopeApply
    \/ AIReviewPanel

\* The editor page with no engine call running.
InitReview == InitWith({Args(<<>>, <<1, 1, 2, 2>>)})

SpecReview == InitReview /\ [][NextReview]_vars

SpecEditor == InitReview /\ [][NextEditor]_vars

(***************************************************************************)
(* Properties                                                              *)
(***************************************************************************)

\* The clauses prefillPericope was asked to pre-fill, in the order supplied.
suppliedClauses ==
    clausesOf(filterVerseRange(args.verses, args.startChapter, args.startVerse,
                               args.endChapter, args.endVerse))

\* The Identity Key of the n-th participant of a clause-result list, in clause
\* order and participant order within a clause.
keyAt(clauses, n) ==
    normalizeParticipantKey(participantAt(clauses, positions(clauses)[n]))

statusAt(clauses, n) == participantAt(clauses, positions(clauses)[n]).reference_status

\* The position of the first participant bearing the key of the n-th.
firstOccurrence(clauses, n) ==
    CHOOSE m \in 1..n :
        /\ keyAt(clauses, m) = keyAt(clauses, n)
        /\ \A l \in 1..(m - 1) : keyAt(clauses, l) # keyAt(clauses, n)

clauseIds(clauses) == [i \in 1..Len(clauses) |-> clauses[i].clause_id]

\* C1: among the participants the resolver has visited, read in the order the
\* clauses were supplied, the first bearer of every Identity Key is tagged
\* new_mention and every later bearer is tagged given; the clause results
\* stand in the order the caller supplied the clauses, whatever their ids.
C1_StatusSequence ==
    rstate \in {"running", "done"} =>
        /\ \A n \in 1..rpos :
               statusAt(allClauses, n).value =
                   IF firstOccurrence(allClauses, n) = n THEN "new_mention" ELSE "given"
        /\ clauseIds(allClauses) = clauseIds(suppliedClauses)
        /\ rstate = "done" => rpos = Len(positions(allClauses))

\* C1 witness: the resolver has finished a span whose clause ids do not grow
\* and in which one key occurs three times.
C1_Witness ==
    /\ rstate = "done"
    /\ \E i, j \in 1..Len(allClauses) :
           i < j /\ allClauses[i].clause_id > allClauses[j].clause_id
    /\ \E n \in 1..rpos :
           /\ firstOccurrence(allClauses, n) < n
           /\ \E m \in 1..(n - 1) :
                  /\ firstOccurrence(allClauses, m) < m
                  /\ keyAt(allClauses, m) = keyAt(allClauses, n)

\* C2: every visited participant tagged given has confidence high and the
\* basis "seen in clause <id>" with the id of the clause holding the first
\* occurrence of its key; every one tagged new_mention has confidence high and
\* basis "first occurrence"; and the map always holds, for each key, the id of
\* the clause of its first occurrence.
C2_BasisNamesFirstClause ==
    rstate \in {"running", "done"} =>
        /\ \A n \in 1..rpos :
               LET first == positions(allClauses)[firstOccurrence(allClauses, n)]
                   status == statusAt(allClauses, n)
               IN  /\ status.confidence = "high"
                   /\ status.value = "given" =>
                          status.bhsa_basis =
                              "seen in clause " \o ToString(allClauses[first[1]].clause_id)
                   /\ status.value = "new_mention" =>
                          status.bhsa_basis = "first occurrence"
        /\ DOMAIN seen = {keyAt(allClauses, n) : n \in 1..rpos}
        /\ \A n \in 1..rpos :
               seen[keyAt(allClauses, n)] =
                   allClauses[positions(allClauses)[firstOccurrence(allClauses, n)][1]].clause_id

\* C2 witness: a key has been seen in three clauses with three different ids.
C2_Witness ==
    /\ rstate = "done"
    /\ \E l, m, n \in 1..rpos :
           /\ l < m /\ m < n
           /\ keyAt(allClauses, l) = keyAt(allClauses, m)
           /\ keyAt(allClauses, m) = keyAt(allClauses, n)
           /\ Cardinality({allClauses[positions(allClauses)[x][1]].clause_id :
                               x \in {l, m, n}}) = 3

\* The Identity Keys of all participants of a clause-result list.
keysOf(clauses) == {keyAt(clauses, n) : n \in 1..Len(positions(clauses))}

\* C3: the registry returned holds exactly one entry per distinct Identity Key
\* of the span's participants.
C3_RegistryOneEntryPerKey ==
    pc = "done" =>
        LET reg == result.participant_registry
        IN  /\ {normalizeParticipantKey(reg[n]) : n \in 1..Len(reg)} = keysOf(result.clauses)
            /\ Len(reg) = Cardinality(keysOf(result.clauses))

\* C3 witness: a returned registry with several entries, fewer than the
\* span has participants.
C3_Witness ==
    /\ pc = "done"
    /\ Len(result.participant_registry) > 1
    /\ Len(result.participant_registry) < Len(positions(result.clauses))

\* The fields of a participant other than reference_status.
dataOf(p) ==
    [id |-> p.id, word_id |-> p.word_id, label |-> p.label,
     label_hebrew |-> p.label_hebrew, type |-> p.type, quantity |-> p.quantity,
     semantic_role |-> p.semantic_role, phrase_function |-> p.phrase_function]

\* C4: every registry entry carries the data of the first participant that
\* bears its Identity Key, in supplied clause order.
C4_RegistryKeepsFirstOccurrence ==
    pc = "done" =>
        \A n \in 1..Len(positions(result.clauses)) :
            LET first == participantAt(result.clauses,
                             positions(result.clauses)[firstOccurrence(result.clauses, n)])
                entries == {e \in 1..Len(result.participant_registry) :
                               normalizeParticipantKey(result.participant_registry[e])
                                   = keyAt(result.clauses, n)}
            IN  /\ entries # {}
                /\ \A e \in entries :
                       dataOf(result.participant_registry[e]) = dataOf(first)

\* C4 witness: a key recurs on a participant whose data differ from those of
\* its first occurrence.
C4_Witness ==
    /\ pc = "done"
    /\ \E n \in 1..Len(positions(result.clauses)) :
           dataOf(participantAt(result.clauses, positions(result.clauses)[n]))
               # dataOf(participantAt(result.clauses,
                     positions(result.clauses)[firstOccurrence(result.clauses, n)]))

\* What a participant's key is read from: the Hebrew label, else the English.
rawLabel(p) == IF p.label_hebrew # <<>> THEN p.label_hebrew ELSE p.label

\* A label without its leading definite article ("the" and the white space
\* after it).
withoutArticle(label) ==
    IF /\ Len(label) > 3
       /\ SubSeq(label, 1, 3) = <<"t", "h", "e">>
       /\ isWhiteSpace(label[4])
    THEN trimStart(SubSeq(label, 4, Len(label)))
    ELSE label

\* Two labels that differ only in surrounding white space, letter case or a
\* leading definite article.
sameLabel(p, q) ==
    withoutArticle(toLowerCase(trim(rawLabel(p))))
        = withoutArticle(toLowerCase(trim(rawLabel(q))))

\* C5: two participants whose labels differ only in surrounding white space,
\* letter case or a leading definite article bear the same Identity Key, so
\* the later one is tagged given and the registry holds one entry for both.
C5_KeyStripsArticle ==
    pc = "done" =>
        \A m, n \in 1..Len(positions(result.clauses)) :
            LET p == participantAt(result.clauses, positions(result.clauses)[m])
                q == participantAt(result.clauses, positions(result.clauses)[n])
            IN  (m < n /\ sameLabel(p, q)) =>
                    /\ normalizeParticipantKey(p) = normalizeParticipantKey(q)
                    /\ q.reference_status.value = "given"
                    /\ Cardinality({e \in 1..Len(result.participant_registry) :
                           \/ sameLabel(result.participant_registry[e], p)
                           \/ sameLabel(result.participant_registry[e], q)}) = 1

\* The clause results prefillClause gives for the supplied clauses.
prefilled == [i \in 1..Len(suppliedClauses) |-> prefillClause(suppliedClauses[i])]

\* C6 as claimed: the registry is the same, reference_status included,
\* however the registry builder is scheduled against the resolver: it is the
\* registry built after the resolver has run.
C6_RegistryIgnoresResolver ==
    pc = "done" =>
        result.participant_registry
            = buildParticipantRegistry(assignReferenceStatus(prefilled))

\* C6 as amended: however the two passes are scheduled, the registry has the
\* same entries in the same order with the same data as the registry built
\* after the resolver; only reference_status differs, and it is what the
\* first occurrence carried when it was copied: unset before the resolver
\* reached it, new_mention after.
C6_RegistrySameExceptStatus ==
    pc = "done" =>
        LET reg == result.participant_registry
            after == buildParticipantRegistry(assignReferenceStatus(prefilled))
        IN  /\ [e \in 1..Len(reg) |-> dataOf(reg[e])]
                   = [e \in 1..Len(after) |-> dataOf(after[e])]
            /\ \A e \in 1..Len(reg) :
                   reg[e].reference_status \in
                       {unsetReferenceStatus, pv("new_mention", "high", "first occurrence")}

\* C6 witness: the passes were interleaved: one entry was copied before the
\* resolver reached its participant, another after.
C6_Witness ==
    /\ pc = "done"
    /\ \E e, f \in 1..Len(result.participant_registry) :
           /\ result.participant_registry[e].reference_status.value = "unset"
           /\ result.participant_registry[f].reference_status.value = "new_mention"

\* A clause result with the reference_status of its participants blanked.
withoutStatus(clauseResult) ==
    [clauseResult EXCEPT !.participants =
        [n \in 1..Len(clauseResult.participants) |->
            [clauseResult.participants[n] EXCEPT !.reference_status = NULL]]]

\* C7: in the result, every field of every clause result other than its
\* participants' reference_status is what prefillClause gives for that clause
\* alone, whatever the other clauses of the span are.
C7_OnlyStatusChanges ==
    pc = "done" =>
        /\ Len(result.clauses) = Len(suppliedClauses)
        /\ \A i \in 1..Len(result.clauses) :
               withoutStatus(result.clauses[i])
                   = withoutStatus(prefillClause(suppliedClauses[i]))

\* C7 witness: a result of several clauses in which the passes did change
\* something: a participant is tagged given.
C7_Witness ==
    /\ pc = "done"
    /\ Len(result.clauses) > 2
    /\ \E n \in 1..Len(positions(result.clauses)) :
           statusAt(result.clauses, n).value = "given"
    /\ result.clauses # prefilled

\* C8: a call's result depends on its arguments only: it equals the result
\* of every earlier call with the same arguments, whatever was called between.
C8_ResultDependsOnArgumentsOnly ==
    pc = "done" =>
        \A n \in 1..Len(log) : log[n].args = args => log[n].result = result

\* C8 witness: a call on a span, then a call on another span that has
\* participants, then the first span again.
C8_Witness ==
    /\ pc = "done"
    /\ Len(log) = 2
    /\ log[1].args = args
    /\ log[2].args # args
    /\ log[2].result.participant_registry # <<>>
    /\ \E n \in 1..Len(positions(result.clauses)) :
           statusAt(result.clauses, n).value = "given"

\* C9: before the resolver is entered every participant pre-filled so far
\* has the placeholder reference_status unset, and in the result returned
\* every participant of every clause is new_mention or given.
C9_StatusLifecycle ==
    /\ (pc \in {"prefill", "passes"} /\ rstate = "idle") =>
           \A n \in 1..Len(positions(allClauses)) :
               statusAt(allClauses, n) = pv("unset", "low", "pending pericope pass")
    /\ pc = "done" =>
           \A n \in 1..Len(positions(result.clauses)) :
               statusAt(result.clauses, n).value \in {"new_mention", "given"}

\* C9 witness: a returned span with participants of both statuses, among
\* them a pronominal suffix.
C9_Witness ==
    /\ pc = "done"
    /\ \E m, n \in 1..Len(positions(result.clauses)) :
           /\ statusAt(result.clauses, m).value = "new_mention"
           /\ statusAt(result.clauses, n).value = "given"
           /\ participantAt(result.clauses, positions(result.clauses)[n]).type.bhsa_basis
                  = "pronominal suffix"

\* The Tagged Values of a participant.
participantValues(p) == {p.type, p.quantity, p.reference_status, p.semantic_role}

\* The Tagged Values of a clause result: its non-null fields and those of its
\* participants.
clauseValues(c) ==
    ({c.clause_type, c.event_category, c.reality, c.polarity, c.aspect,
      c.time_frame, c.volitionality, c.discourse_function, c.register} \ {NULL})
    \cup UNION {participantValues(c.participants[n]) : n \in 1..Len(c.participants)}

isTaggedValue(v) ==
    /\ DOMAIN v = {"value", "source", "confidence", "bhsa_basis"}
    /\ v.source = "BHSA_AUTO"
    /\ v.confidence \in {"high", "medium", "low"}
    /\ v.bhsa_basis # ""

\* C10: every Tagged Value of every clause result, while the span is being
\* processed and in the result, and of every registry entry, has source
\* BHSA_AUTO, a confidence among high, medium, low, and a non-empty basis.
C10_TaggedValuesWellFormed ==
    /\ pc # "called" =>
           \A i \in 1..Len(allClauses) : \A v \in clauseValues(allClauses[i]) :
               isTaggedValue(v)
    /\ gstate # "idle" =>
           \A e \in 1..Len(registry) : \A v \in participantValues(registry[e].value) :
               isTaggedValue(v)
    /\ pc = "done" =>
           /\ \A i \in 1..Len(result.clauses) : \A v \in clauseValues(result.clauses[i]) :
                  isTaggedValue(v)
           /\ \A e \in 1..Len(result.participant_registry) :
                  \A v \in participantValues(result.participant_registry[e]) :
                      isTaggedValue(v)

\* C10 witness: a result with registry entries in which every optional field
\* of a clause result was filled for some clause.
C10_Witness ==
    /\ pc = "done"
    /\ result.participant_registry # <<>>
    /\ \E i \in 1..Len(result.clauses) : result.clauses[i].event_category # NULL
    /\ \E i \in 1..Len(result.clauses) : result.clauses[i].aspect # NULL
    /\ \E i \in 1..Len(result.clauses) : result.clauses[i].time_frame # NULL
    /\ \E i \in 1..Len(result.clauses) : result.clauses[i].volitionality # NULL
    /\ \E i \in 1..Len(result.clauses) : result.clauses[i].discourse_function # NULL

\* The verbs among the words of a clause.
verbsOf(clause) == {k \in 1..Len(clause.words) : clause.words[k].sp = "verb"}

\* C11: a field among reality, aspect, time_frame, volitionality,
\* event_category and discourse_function is null when the clause offers no
\* feature for a rule to match: no verb for aspect, volitionality and
\* event_category, a structural type outside the discourse table for
\* discourse_function, no text type and no verb for time_frame, and nothing
\* at all for reality.
C11_NoFabricatedDefault ==
    pc = "done" =>
        \A i \in 1..Len(result.clauses) :
            LET c == suppliedClauses[i]
                r == result.clauses[i]
            IN  /\ verbsOf(c) = {} =>
                       r.aspect = NULL /\ r.volitionality = NULL /\ r.event_category = NULL
                /\ c.typ \notin DOMAIN DISCOURSE_FUNCTION_MAP => r.discourse_function = NULL
                /\ (c.txt = <<>> /\ verbsOf(c) = {}) => r.time_frame = NULL
                /\ (c.words = <<>> /\ c.txt = <<>>) => r.reality = NULL

\* C12: polarity is never null: it is negative at high confidence when some
\* word of the clause has a lexeme of the negation-particle set and positive
\* at high confidence otherwise, with or without a verb in the clause.
C12_PolarityTotal ==
    pc = "done" =>
        \A i \in 1..Len(result.clauses) :
            LET c == suppliedClauses[i]
                r == result.clauses[i]
            IN  /\ r.polarity # NULL
                /\ r.polarity.confidence = "high"
                /\ r.polarity.value =
                       IF \E k \in 1..Len(c.words) : c.words[k].lex \in NEGATION_LEXEMES
                       THEN "negative" ELSE "positive"

\* C12 witness: a clause without a verb that holds a negation particle and
\* is tagged negative.
C12_Witness ==
    /\ pc = "done"
    /\ \E i \in 1..Len(result.clauses) :
           /\ verbsOf(suppliedClauses[i]) = {}
           /\ result.clauses[i].event_core = NULL
           /\ result.clauses[i].polarity.value = "negative"

verbless(clause) == clause.typ = "NmCl" \/ clause.kind = "NC" \/ clause.kind = "AjCl"

\* The head content word of the predicate-complement phrase of a clause,
\* NULL if it has no such phrase or the phrase no content word.
predicateHead(clause) ==
    LET n == firstTrue([k \in 1..Len(clause.phrases) |->
                 clause.phrases[k].function \in {"PreC", "PreS"}])
    IN  IF n = 0 THEN NULL ELSE findHeadNoun(clause.phrases[n])

\* C14: a verbless clause whose predicate-complement head is a proper noun
\* is tagged identification at high confidence and gets no event_category.
C14_IdentificationWithoutCategory ==
    pc = "done" =>
        \A i \in 1..Len(result.clauses) :
            LET c == suppliedClauses[i]
                r == result.clauses[i]
            IN  (verbless(c) /\ predicateHead(c) # NULL /\ predicateHead(c).sp = "nmpr") =>
                    /\ r.clause_type.value = "identification"
                    /\ r.clause_type.confidence = "high"
                    /\ r.event_category = NULL

\* A clause with zero words: no word in the flat list nor in any phrase.
wordless(clause) ==
    /\ clause.words = <<>>
    /\ \A k \in 1..Len(clause.phrases) : clause.phrases[k].words = <<>>

\* C15: for a clause with zero words prefillClause returns a result whose
\* event_core and event_category are null, whose participants are the empty
\* list, whose aspect and volitionality are null, and whose clause_type,
\* polarity and register are Tagged Values.
C15_WordlessClauseDegrades ==
    pc = "done" =>
        /\ Len(result.clauses) = Len(suppliedClauses)
        /\ \A i \in 1..Len(result.clauses) :
               LET r == result.clauses[i]
               IN  wordless(suppliedClauses[i]) =>
                       /\ r.event_core = NULL
                       /\ r.event_category = NULL
                       /\ r.participants = <<>>
                       /\ r.aspect = NULL
                       /\ r.volitionality = NULL
                       /\ isTaggedValue(r.clause_type)
                       /\ isTaggedValue(r.polarity)
                       /\ isTaggedValue(r.register)

\* C15 witness: a result for a verbless clause whose phrases hold no word.
C15_Witness ==
    /\ pc = "done"
    /\ \E i \in 1..Len(result.clauses) :
           /\ wordless(suppliedClauses[i])
           /\ suppliedClauses[i].phrases # <<>>
           /\ result.clauses[i].clause_type.value = "classification"
           /\ result.clauses[i].polarity.value = "positive"

\* C16 as claimed: book and the four boundary numbers are copied and not
\* interpreted: the result holds one clause result for every clause of every
\* verse given, in the order given.
C16_BoundariesOpaque ==
    pc = "done" =>
        /\ result.book = args.book
        /\ <<result.start_chapter, result.start_verse, result.end_chapter, result.end_verse>>
               = <<args.startChapter, args.startVerse, args.endChapter, args.endVerse>>
        /\ clauseIds(result.clauses) = clauseIds(clausesOf(args.verses))

\* Chapter:verse a:b is not after chapter:verse c:d.
notAfter(a, b, c, d) == a < c \/ (a = c /\ b <= d)

\* C16 as amended: book and the four boundary numbers are copied; the
\* boundaries select the verses: the result holds one clause result for
\* every clause of every verse given that lies from start to end, in the
\* order given, and none for the other verses.
C16_BoundariesSelectVerses ==
    pc = "done" =>
        /\ result.book = args.book
        /\ <<result.start_chapter, result.start_verse, result.end_chapter, result.end_verse>>
               = <<args.startChapter, args.startVerse, args.endChapter, args.endVerse>>
        /\ clauseIds(result.clauses) =
               clauseIds(clausesOf(SelectSeq(args.verses, LAMBDA v :
                   /\ notAfter(args.startChapter, args.startVerse, v.chapter, v.verse)
                   /\ notAfter(v.chapter, v.verse, args.endChapter, args.endVerse))))

\* C16 witness: a span of which one verse lies in the range and one does not.
C16_Witness ==
    /\ pc = "done"
    /\ Len(args.verses) = 2
    /\ Len(result.clauses) > 0
    /\ Len(result.clauses) < Len(clausesOf(args.verses))

\* The review state of the editor and the traffic of the review endpoint.
reviewVars == <<reviewFlags, reviewStatus, reviewError, requests, responses, reviews>>

\* C17: a step that starts a review, answers one or takes an answer in
\* (a step that changes the review state or the traffic) leaves the
\* annotations, their source tags and the confirmed fields as they were, and
\* an ok response of the endpoint holds a list of flags and nothing else.
C17_ReviewNeverChangesTags ==
    /\ [][reviewVars' # reviewVars => UNCHANGED <<annotations, confirmedFields>>]_vars
    /\ [](\A n \in 1..Len(responses) :
              responses[n].ok => DOMAIN responses[n].body = {"flags"})

\* C17 witness: a review has completed with a flag on a clause whose
\* annotation the analyst confirmed, after an earlier review had failed.
C17_Witness ==
    /\ reviewStatus = "done"
    /\ reviews = 2
    /\ reviewError = "null"
    /\ \E k \in 1..Len(reviewFlags) :
           /\ annotations[reviewFlags[k].clause_id] # NULL
           /\ annotations[reviewFlags[k].clause_id].source = SOURCE_HUMAN_CONFIRMED
           /\ annotations[reviewFlags[k].clause_id].clause_type # reviewFlags[k].recommendation

\* The clause has a temporal phrase.
hasTimePhrase(clause) ==
    \E k \in 1..Len(clause.phrases) : clause.phrases[k].function = "Time"

\* The structural types the discourse table maps to mainline.
mainlineTypes ==
    {typ \in DOMAIN DISCOURSE_FUNCTION_MAP : DISCOURSE_FUNCTION_MAP[typ].fn = "mainline"}

\* C18 as claimed: when the main verb is HJH[, event_category is META at
\* medium confidence if the clause's structural type is one the discourse
\* table maps to mainline and the clause has a Time phrase, and STATE at
\* medium confidence otherwise.
C18_MetaForMainlineTypes ==
    pc = "done" =>
        \A i \in 1..Len(result.clauses) :
            LET c == suppliedClauses[i]
                r == result.clauses[i]
            IN  (r.event_core # NULL /\ r.event_core.lexeme = HJH) =>
                    /\ r.event_category # NULL
                    /\ r.event_category.confidence = "medium"
                    /\ r.event_category.value =
                           IF c.typ \in mainlineTypes /\ hasTimePhrase(c)
                           THEN "META" ELSE "STATE"

\* C18 as amended: when the main verb is HJH[, event_category is META at
\* medium confidence if the clause's structural type is Way0 (wayyiqtol
\* without an explicit subject) and the clause has a Time phrase, and STATE
\* at medium confidence in every other case, WayX with a Time phrase
\* included; it is never high.
C18_MetaForWay0Only ==
    pc = "done" =>
        \A i \in 1..Len(result.clauses) :
            LET c == suppliedClauses[i]
                r == result.clauses[i]
            IN  (r.event_core # NULL /\ r.event_core.lexeme = HJH) =>
                    /\ r.event_category # NULL
                    /\ r.event_category.confidence = "medium"
                    /\ r.event_category.value =
                           IF c.typ = "Way0" /\ hasTimePhrase(c) THEN "META" ELSE "STATE"

\* C18 witness: a Way0 clause of HJH[ with a Time phrase, tagged META.
C18_Witness ==
    /\ pc = "done"
    /\ \E i \in 1..Len(result.clauses) :
           /\ suppliedClauses[i].typ = "Way0"
           /\ hasTimePhrase(suppliedClauses[i])
           /\ result.clauses[i].event_core # NULL
           /\ result.clauses[i].event_core.lexeme = HJH
           /\ result.clauses[i].event_category.value = "META"
           /\ result.clauses[i].event_category.confidence = "medium"

\* C19: a verbless clause whose predicate-complement head is a gentilic
\* (nametype gntl) is tagged classification at high confidence, whatever
\* the part of speech of the head.
C19_GentilicIsClassification ==
    pc = "done" =>
        \A i \in 1..Len(result.clauses) :
            LET c == suppliedClauses[i]
                r == result.clauses[i]
            IN  (verbless(c) /\ predicateHead(c) # NULL
                 /\ predicateHead(c).nametype = "gntl") =>
                    /\ r.clause_type.value = "classification"
                    /\ r.clause_type.confidence = "high"

\* C20: a clause that is not verbless is existential (medium) when it holds
\* a HJH[ verb and a Subj phrase, event (medium) when it holds that verb and
\* no Subj phrase, event (high) when it holds no such verb; a verbless
\* clause is never event nor existential; clause_type is one of five values.
C20_ClauseTypeRouting ==
    pc = "done" =>
        \A i \in 1..Len(result.clauses) :
            LET c == suppliedClauses[i]
                t == result.clauses[i].clause_type
                hasHJH == \E k \in verbsOf(c) : c.words[k].lex = HJH
                hasSubj == \E k \in 1..Len(c.phrases) : c.phrases[k].function = "Subj"
            IN  /\ t.value \in {"event", "identification", "classification",
                                 "attribution", "existential"}
                /\ verbless(c) => t.value \notin {"event", "existential"}
                /\ (~verbless(c) /\ hasHJH /\ hasSubj) =>
                       t.value = "existential" /\ t.confidence = "medium"
                /\ (~verbless(c) /\ hasHJH /\ ~hasSubj) =>
                       t.value = "event" /\ t.confidence = "medium"
                /\ (~verbless(c) /\ ~hasHJH) =>
                       t.value = "event" /\ t.confidence = "high"

\* C20 witness: a verbal clause without Subj phrase whose main verb is
\* another verb and that holds HJH[ further on: event at medium confidence.
C20_Witness ==
    /\ pc = "done"
    /\ \E i \in 1..Len(result.clauses) :
           /\ ~verbless(suppliedClauses[i])
           /\ result.clauses[i].event_core # NULL
           /\ result.clauses[i].event_core.lexeme # HJH
           /\ result.clauses[i].clause_type.value = "event"
           /\ result.clauses[i].clause_type.confidence = "medium"

\* The elements of a sequence.
elementsOf(seq) == {seq[k] : k \in 1..Len(seq)}

\* The words of a clause's phrases that carry participants.
argumentWords(clause) ==
    {w \in elementsOf(clause.words) :
        \E k \in 1..Len(clause.phrases) :
            /\ clause.phrases[k].function \in participantFunctions
            /\ w \in elementsOf(clause.phrases[k].words)}

\* The participants of a clause result with the given id.
withId(clauseResult, id) ==
    {n \in 1..Len(clauseResult.participants) : clauseResult.participants[n].id = id}

\* The free-standing participants of a clause result, by position.
freeStanding(clause, clauseResult) ==
    {n \in 1..Len(clauseResult.participants) :
        \E w \in argumentWords(clause) :
            clauseResult.participants[n].id = "p_" \o ToString(w.word_id)}

\* The word a participant was extracted from.
wordOf(clause, participant) ==
    CHOOSE w \in elementsOf(clause.words) : w.word_id = participant.word_id

\* C21: every suffixed word of an argument-bearing phrase yields exactly one
\* suffix participant ps_<word_id>, keyed by the word, whether or not a
\* free-standing participant of the same lexeme exists; every participant is
\* free-standing or a suffix; no two free-standing participants of one
\* clause share a lexical key.
C21_SuffixNeverMerged ==
    pc = "done" =>
        \A i \in 1..Len(result.clauses) :
            LET c == suppliedClauses[i]
                r == result.clauses[i]
            IN  /\ \A w \in argumentWords(c) :
                       Cardinality(withId(r, "ps_" \o ToString(w.word_id))) =
                           IF hasSuffix(w) THEN 1 ELSE 0
                /\ \A n \in 1..Len(r.participants) :
                       \E w \in argumentWords(c) :
                           /\ r.participants[n].word_id = w.word_id
                           /\ r.participants[n].id \in
                                  {"p_" \o ToString(w.word_id), "ps_" \o ToString(w.word_id)}
                /\ \A m, n \in freeStanding(c, r) :
                       wordKey(wordOf(c, r.participants[m])) =
                           wordKey(wordOf(c, r.participants[n])) => m = n
                /\ \A w \in argumentWords(c) :
                       isParticipantWord(w) =>
                           \E n \in freeStanding(c, r) :
                               wordKey(wordOf(c, r.participants[n])) = wordKey(w)

\* C21 witness: a suffixed word whose own free-standing mention was dropped as
\* a duplicate of an earlier participant of the same lexeme still has its
\* suffix participant.
C21_Witness ==
    /\ pc = "done"
    /\ \E i \in 1..Len(result.clauses) :
           \E w \in argumentWords(suppliedClauses[i]) :
               /\ hasSuffix(w)
               /\ isParticipantWord(w)
               /\ withId(result.clauses[i], "p_" \o ToString(w.word_id)) = {}
               /\ withId(result.clauses[i], "ps_" \o ToString(w.word_id)) # {}

\* C22: aspect is non-null exactly when the clause contains a verb; for the
\* verb the modifiers are read from it is not_specified at low confidence
\* in imperfect, imperative and infinitive tense, completed at high
\* confidence in wayq, completed at medium in perfect, ongoing at medium in
\* active participle.
C22_AspectTable ==
    pc = "done" =>
        \A i \in 1..Len(result.clauses) :
            LET c == suppliedClauses[i]
                a == result.clauses[i].aspect
                verb == findVerb(c.words)
            IN  /\ a # NULL <=> verbsOf(c) # {}
                /\ verb # NULL =>
                       /\ verb.vt \in {"impf", "impv", "infc", "infa"} =>
                              a.value = "not_specified" /\ a.confidence = "low"
                       /\ verb.vt = "wayq" => a.value = "completed" /\ a.confidence = "high"
                       /\ verb.vt = "perf" => a.value = "completed" /\ a.confidence = "medium"
                       /\ verb.vt = "ptca" => a.value = "ongoing" /\ a.confidence = "medium"

\* C22 witness: a clause whose verb is imperfect, with the explicit
\* abstention as its aspect.
C22_Witness ==
    /\ pc = "done"
    /\ \E i \in 1..Len(result.clauses) :
           /\ result.clauses[i].event_core # NULL
           /\ result.clauses[i].event_core.verbal_tense = "impf"
           /\ result.clauses[i].aspect # NULL
           /\ result.clauses[i].aspect.value = "not_specified"
           /\ result.clauses[i].aspect.confidence = "low"

\* C23: a clause whose main verb is imperative has time_frame prospective
\* and volitionality volitional, both at high confidence, whatever its text
\* type.
C23_ImperativeIsProspective ==
    pc = "done" =>
        \A i \in 1..Len(result.clauses) :
            LET r == result.clauses[i]
            IN  (r.event_core # NULL /\ r.event_core.verbal_tense = "impv") =>
                    /\ r.time_frame # NULL
                    /\ r.time_frame.value = "prospective"
                    /\ r.time_frame.confidence = "high"
                    /\ r.volitionality # NULL
                    /\ r.volitionality.value = "volitional"
                    /\ r.volitionality.confidence = "high"

\* C24: for every clause with a verb, aspect, time_frame and volitionality
\* are those of the tense of the event core's verb.
C24_ModifiersFromEventCoreVerb ==
    pc = "done" =>
        \A i \in 1..Len(result.clauses) :
            LET c == suppliedClauses[i]
                r == result.clauses[i]
                mainVerb == [vt |-> r.event_core.verbal_tense]
            IN  verbsOf(c) # {} =>
                    /\ r.event_core # NULL
                    /\ r.aspect = inferAspect(mainVerb)
                    /\ r.time_frame = inferTimeFrame(c, mainVerb)
                    /\ r.volitionality = inferVolitionality(mainVerb)

\* C25: a registry entry is a copy: once registered it never changes, even
\* when the reference_status of the clause participant it was copied from is
\* replaced later, and the result returns the copies as they were taken;
\* every entry registered once the resolver has returned, as all are in the
\* call order of prefillPericope, has reference_status new_mention.
C25_RegistryHoldsCopies ==
    /\ [][\A n \in 1..Len(registry) :
              /\ n <= Len(registry')
              /\ registry'[n] = registry[n]]_vars
    /\ [][(rstate = "done" /\ Len(registry') > Len(registry)) =>
              \A n \in (Len(registry) + 1)..Len(registry') :
                  /\ registry'[n].value.reference_status.value = "new_mention"
                  /\ registry'[n].value.reference_status.confidence = "high"]_vars
    /\ [](pc = "done" =>
              /\ Len(result.participant_registry) = Len(registry)
              /\ \A n \in 1..Len(registry) :
                     result.participant_registry[n] = registry[n].value)

\* C25 witness: a result with an entry registered after the resolver, which
\* is new_mention, and an entry copied before the resolver reached its
\* participant, which still has the status it was copied with although the
\* clause participant has since become new_mention.
C25_Witness ==
    /\ pc = "done"
    /\ \E n \in 1..Len(result.participant_registry) :
           result.participant_registry[n].reference_status.value = "new_mention"
    /\ \E n \in 1..Len(result.participant_registry) :
           /\ result.participant_registry[n].reference_status.value = "unset"
           /\ \E i \in 1..Len(result.clauses) :
                  \E j \in 1..Len(result.clauses[i].participants) :
                      LET q == result.clauses[i].participants[j]
                      IN  /\ q.id = result.participant_registry[n].id
                          /\ q.reference_status.value = "new_mention"

\* The n-th participant of the result, in clause and participant order.
mention(n) == participantAt(result.clauses, positions(result.clauses)[n])

\* The positions of the result's suffix participants.
suffixMentions ==
    {n \in 1..Len(positions(result.clauses)) :
        mention(n).id = "ps_" \o ToString(mention(n).word_id)}

\* The suffix consonants of the n-th participant's word, trimmed and
\* case-folded.
foldedSuffix(n) ==
    toLowerCase(trim(wordOf(suppliedClauses[positions(result.clauses)[n][1]],
                            mention(n)).prs))

\* The label of a participant, trimmed and case-folded.
foldedLabel(p) == toLowerCase(trim(rawLabel(p)))

\* C26: suffix participants are identified by their suffix consonants only.
\* Of two suffix participants with the same consonants after trimming and
\* case-folding the later one is tagged given; a suffix participant is
\* tagged new_mention exactly when no earlier suffix participant has its
\* consonants and no earlier free-standing participant has a label that
\* normalizes to them; the registry holds one entry for all participants
\* with these consonants.
C26_SuffixKeyIsConsonants ==
    pc = "done" =>
        LET reg == result.participant_registry
        IN  \A n \in suffixMentions :
                /\ \A m \in suffixMentions :
                       (m < n /\ foldedSuffix(m) = foldedSuffix(n)) =>
                           mention(n).reference_status.value = "given"
                /\ mention(n).reference_status.value = "new_mention" <=>
                       \A m \in 1..(n - 1) :
                           IF m \in suffixMentions
                           THEN foldedSuffix(m) # foldedSuffix(n)
                           ELSE foldedLabel(mention(m)) # foldedSuffix(n)
                /\ mention(n).reference_status.value \in {"new_mention", "given"}
                /\ Cardinality({k \in 1..Len(reg) :
                                   foldedLabel(reg[k]) = foldedSuffix(n)}) = 1

\* C26 witness: two suffix participants on different words whose consonants
\* differ as written and agree once trimmed and case-folded, the first
\* new_mention and the second given.
C26_Witness ==
    /\ pc = "done"
    /\ \E m, n \in suffixMentions :
           /\ m < n
           /\ mention(m).word_id # mention(n).word_id
           /\ mention(m).label_hebrew # mention(n).label_hebrew
           /\ foldedSuffix(m) = foldedSuffix(n)
           /\ mention(m).reference_status.value = "new_mention"
           /\ mention(n).reference_status.value = "given"

\* C27: the editor's linking key and the engine's Identity Key group the
\* participants alike: two participants have equal editor keys exactly when
\* they have equal Identity Keys, no two registry entries share an editor
\* key, and every participant finds under its editor key the entry built
\* from the engine's registry entry for its Identity Key.
C27_KeysGroupAlike ==
    pc = "done" =>
        LET entries == bookParticipantRegistry(result)
            all == 1..Len(positions(result.clauses))
        IN  /\ \A m, n \in all :
                   editorKey(mention(m)) = editorKey(mention(n)) <=>
                       normalizeParticipantKey(mention(m)) = normalizeParticipantKey(mention(n))
            /\ \A a, b \in 1..Len(entries) : entries[a].key = entries[b].key => a = b
            /\ \A n \in all :
                   \E e \in bookRegistryByKey(entries) :
                       /\ e.key = editorKey(mention(n))
                       /\ e.source_id = mention(firstOccurrence(result.clauses, n)).id

\* The source tag of a clause's field changes in the step: the annotation
\* exists before and after, with different tags.
tagChanges(c) ==
    /\ annotations[c] # NULL
    /\ annotations'[c] # NULL
    /\ annotations'[c].source # annotations[c].source

C29_Pass4Gated ==
    /\ [][(activePass' = 3 /\ activePass # 3) => pericopeReadyForReview]_vars
    /\ [](activePass = 3 => pericopeReadyForReview)
    /\ [][(activePass = 3 /\ ~pericopeReadyForReview') => activePass' = 2]_vars
    /\ [][reviews' > reviews => (activePass = 3 /\ pericopeReadyForReview)]_vars

\* C29's case: after a review was started from Pass 4, a range with an
\* unconfirmed clause is loaded and the editor shows Pass 3.
C29_Witness ==
    /\ reviews > 0
    /\ activePass = 2
    /\ \E i \in 1..Len(pericopeClauses) : confirmedFields[pericopeClauses[i]] = {}

\* The annotations applyPrefillToAnnotation can be given, with any tag.
anyAnnotation ==
    {Annotation(t, source) :
        t \in ClauseTypes, source \in {"none", SOURCE_AUTO, SOURCE_HUMAN_CONFIRMED}}

\* applyPrefillToAnnotation writes the field only when it is at not_specified,
\* or at event with a non-event pre-fill, writes the engine's value, tags the
\* field BHSA_AUTO exactly when it wrote it, and returns the base otherwise.
prefillWritesOnlyUnset ==
    \A base \in anyAnnotation, prefillClauseType \in ClauseTypes :
        LET out == applyPrefillToAnnotation(base, prefillClauseType)
        IN  /\ out.clause_type # base.clause_type =>
                   /\ \/ base.clause_type = "not_specified"
                      \/ (base.clause_type = "event" /\ prefillClauseType # "event")
                   /\ out.clause_type = prefillClauseType
                   /\ out.source = SOURCE_AUTO
            /\ out.clause_type = base.clause_type => out = base

====
